---- MODULE Spec2Model ----
(***************************************************************************)
(* Adaptive 3D-rendering quality controller of the ynz3d site.             *)
(*                                                                         *)
(* The module holds one state machine per component of the controller:    *)
(*   SpecCache   - ModelMemoryManager (src/src/utils/modelMemoryManager.js)*)
(*   SpecLoader  - OptimizedModelLoader / LODManager with the device       *)
(*                 assessment (src/unnamed/part_003, src/unnamed/part_008) *)
(*   SpecPhoenix - PhoenixPerformanceMonitor, the PerformanceMetrics       *)
(*                 collector and the quality adjustment of OptimizedPhoenix*)
(*                 (src/unnamed/part_008, OptimizedPhoenix.jsx)            *)
(*   SpecAssess  - assessDeviceCapabilities of deviceDetection             *)
(*                 (src/unnamed/part_008)                                  *)
(*   SpecFailedLoad, SpecEviction, SpecConstruction - ModelMemoryManager   *)
(*                 as one caller sees a load, with cleanup callbacks, and  *)
(*                 under construction                                      *)
(*   SpecLoaderFair, SpecDeadline - the load attempt of the loader and its *)
(*                 deadline timer                                          *)
(*   SpecWarning, SpecMonitoring, SpecHistory - the Phoenix monitor with   *)
(*                 warning callbacks, started and stopped, and over a long *)
(*                 session                                                 *)
(*   SpecAnimation - AnimationOptimizer with its PerformanceMonitor        *)
(*                 (src/unnamed/part_008)                                  *)
(* Each specification moves only its own component's variables and leaves *)
(* the others at their constructed value.                                  *)
(*                                                                         *)
(* Memory sizes are integers in thousandths of a megabyte, so that the     *)
(* two-decimal rounding of the statistics is visible.                      *)
(***************************************************************************)
EXTENDS Integers, Sequences, FiniteSets, TLC

VARIABLES
  loadedModels,     \* Map path -> cacheEntry, as a sequence in insertion order
  inflight,         \* the pending loadModelInternal calls, oldest first; "registered"
                    \* marks the one loadingPromises holds for its path, "torn" the
                    \* ones that were pending when clearCache ran
  nLoads,           \* number of loadModelInternal calls made so far
  memoryUsage,      \* this.memoryUsage.estimatedMemoryMB
  maxCacheSize,     \* this.maxCacheSize (MB)
  now,              \* Date.now()
  webglSupported,   \* canvas.getContext('webgl') yields a context on this device
  deviceAssessment, \* OptimizedModelLoader state
  loadingProgress,  \* OptimizedModelLoader state, percent
  error,            \* OptimizedModelLoader state
  retryCount,       \* OptimizedModelLoader state
  loadingTimeout,   \* loadingTimeoutRef: the pending timer and what its callback closed over
  performanceSettings, \* LODManager state, handed to the loader as a prop
  fpsLoops,         \* the checkPerformance loops alive on requestAnimationFrame, oldest first
  requested,        \* the asset paths useGLTF has been called with
  onErrorCalls,     \* calls of the loader's onError prop (LODManager.handleError)
  timeouts,         \* timer callbacks that found loadingProgress < 100
  time,             \* performance.now(), in whole seconds
  fps,              \* frames counted during the second that just ended
  lastDowngrade,    \* time of the last tier step-down made by a checkPerformance loop
  loadError,        \* useGLTF has thrown the error of a failed load into the render
  thresholds,       \* PhoenixPerformanceMonitor.thresholds
  isMonitoring,     \* PhoenixPerformanceMonitor.isMonitoring
  renderTime,       \* metrics.phoenix.renderTime, the time of each sample (ms)
  animationFrames,  \* metrics.phoenix.animationFrames, the fps of each sample
  memoryUsageLog,   \* metrics.phoenix.memoryUsage, the total MB of each sample
  optimizationHistory, \* the performanceData of every downgrade event dispatched
  performanceWarnings, \* metrics.session.performanceWarnings
  frameRates,       \* PerformanceMetrics.metrics.frameRates
  collectorMonitoring, \* PerformanceMetrics.isMonitoring
  performanceMonitor,  \* OptimizedPhoenix state: the collector is held
  currentQuality,   \* OptimizedPhoenix state
  deviceCapabilities, \* what the last assessDeviceCapabilities() call returned
  warningCallbacks, \* PhoenixPerformanceMonitor.warningCallbacks, in insertion order
  warned,           \* the warning callbacks the last recorded sample invoked
  interactionLatency, \* metrics.phoenix.interactionLatency, the latency of each sample (ms)
  cleanupCallbacks, \* ModelMemoryManager.cleanupCallbacks, in insertion order
  releases,         \* the disposeModel calls of the last cleanup or clearCache
  observed,         \* what a cleanup callback read from getMemoryStats() during them
  lookup,           \* the last lookup of an asset path and a profile, and its result
  loadElapsed,      \* time since the load of the current asset path started
  timerElapsed,     \* time since the deadline timer was armed
  statsRead,        \* what a caller read from getMemoryStats() before its loadModelProgressive call
  analysisTimers,   \* the 5-second analysis intervals of the Phoenix monitor that are installed
  qualityTimers,    \* the 10-second quality intervals of the Phoenix monitor that are installed
  frameSamplers,    \* the measureRenderTime loops with a frame requested
  memorySamplers,   \* the checkMemory chains of the Phoenix monitor with a timeout pending
  interactionListeners, \* the sets of document listeners startInteractionMonitoring has added
  collectorLoops,   \* the measureFPS loops of the collector with a frame requested: the fpsHistory of each
  consumers,        \* who has started the collector and not stopped it
  collectorMemoryUsage, \* metrics.memoryUsage of the collector, the used MB of each sample
  networkStats,     \* metrics.networkStats of the collector, the rtt of each sample
  frames,           \* PerformanceMonitor.frames of the animation optimizer, the deltaTime of each frame (ms)
  animationQuality, \* AnimationOptimizer.deviceAssessment.recommendedQuality, "null" before construction
  droppedFrames,    \* PerformanceMonitor.droppedFrames of the animation optimizer
  animationStats,   \* AnimationOptimizer.animationStats: averageFPS and droppedFrames
  construction      \* a new ModelMemoryManager(): the assessed quality, the getCompressionSettings frames on the stack, the outcome

cacheVars == <<loadedModels, inflight, nLoads, memoryUsage,
               maxCacheSize, now>>

loaderVars == <<webglSupported, deviceAssessment, loadingProgress, error,
                retryCount, loadingTimeout, performanceSettings, fpsLoops,
                requested, onErrorCalls, timeouts, time, fps, lastDowngrade,
                loadError>>

phoenixVars == <<thresholds, isMonitoring, renderTime, animationFrames,
                 memoryUsageLog, optimizationHistory, performanceWarnings, frameRates,
                 collectorMonitoring, performanceMonitor, currentQuality>>

assessVars == <<deviceCapabilities>>

warningVars == <<warningCallbacks, warned, interactionLatency>>

evictionVars == <<cleanupCallbacks, releases, observed>>

lookupVars == <<lookup>>

deadlineVars == <<loadElapsed, timerElapsed>>

statsVars == <<statsRead>>

monitoringVars == <<analysisTimers, qualityTimers, frameSamplers, memorySamplers,
                    interactionListeners, collectorLoops, consumers>>

historyVars == <<collectorMemoryUsage, networkStats, frames>>

animationVars == <<animationQuality, droppedFrames, animationStats>>

constructionVars == <<construction>>

vars == <<cacheVars, loaderVars, phoenixVars, assessVars, warningVars,
          evictionVars, lookupVars, deadlineVars,
          statsVars,
          monitoringVars,
          historyVars,
          animationVars,
          constructionVars>>

(***************************************************************************)
(* Bounds of the model.                                                    *)
(***************************************************************************)
MaxLoads == 3
MaxClock == 1
MaxTimeouts == 4
MaxTime == 6
MaxSamples == 2
MaxDowngrades == 1
MaxWarningSamples == 3
MaxElapsed == 7
MaxStarts == 2
MaxEvents == 301
MaxFrames == 61
MaxStack == 100

(***************************************************************************)
(* Inputs.                                                                 *)
(***************************************************************************)
Paths == {"phoenix-low.glb", "phoenix-medium.glb", "ynz-low.glb"}
Priorities == {"low", "normal", "high"}
\* gl.MAX_TEXTURE_SIZE of the probed devices
MaxTextureSizes == {2048}
\* calculateModelMemoryUsage of each asset, in thousandths of a MB
ModelSize(path) ==
  CASE path = "phoenix-low.glb" -> 30000
    [] path = "phoenix-medium.glb" -> 45007
    [] path = "ynz-low.glb" -> 30000

(***************************************************************************)
(* deviceDetection: the probe and the assessment                           *)
(***************************************************************************)
\* webglInfo.tier as assessGPUTier returns it
GpuTiers == {"HIGH", "MEDIUM", "LOW"}
\* estimateAvailableMemory(), MB: navigator.deviceMemory of 1, 2 and 4 GB, and
\* the 3 GB assumed for a tablet
MemoryEstimates == {1024, 2048, 3072, 4096}
\* getNetworkQuality().quality
NetworkQualities == {"SLOW", "MEDIUM", "FAST", "UNKNOWN"}

\* what the probe finds on a device; without a WebGL context the tier is 'NONE'
Devices ==
  {d \in [supported : BOOLEAN, isMobile : BOOLEAN, tier : GpuTiers \cup {"NONE"},
          memoryEstimate : MemoryEstimates, network : NetworkQualities] :
     d.supported <=> d.tier # "NONE"}

\* Array.prototype.indexOf, zero-based, -1 when absent
IndexOf(levels, x) ==
  IF \E i \in 1..Len(levels) : levels[i] = x
  THEN (CHOOSE i \in 1..Len(levels) : levels[i] = x) - 1
  ELSE -1

\* levels[index] for a zero-based index
At(levels, index) == levels[index + 1]

Min(a, b) == IF a < b THEN a ELSE b

\* an asset '/models/optimized/<type>-<quality>.glb' is the pair <<type, quality>>
NoPath == <<>>
AssetPath(type, quality) == <<type, quality>>

\* getModelPath of deviceDetection: modelPaths[quality] || modelPaths['low']
deviceGetModelPath(quality) ==
  LET modelPaths == [q \in {"none", "ultra-low", "low", "medium", "high", "original"} |->
                       IF q = "none" THEN NoPath ELSE AssetPath("ynz", q)]
  IN IF quality \in DOMAIN modelPaths /\ modelPaths[quality] # NoPath
     THEN modelPaths[quality]
     ELSE modelPaths["low"]

getLoadingStrategy(quality, networkQuality) ==
  [timeout |-> IF networkQuality = "SLOW" THEN 30000 ELSE 15000,
   retryAttempts |-> IF networkQuality = "SLOW" THEN 1 ELSE 2]

\* getPerformanceSettings: settings[quality] || settings['low']; of the
\* settings only maxFPS is read by the controller
getPerformanceSettings(quality, isMobile) ==
  LET settings == [q \in {"ultra-low", "low", "medium", "high"} |->
        [maxFPS |-> CASE q = "ultra-low" -> 30
                      [] q = "low" -> 30
                      [] q = "medium" -> IF isMobile THEN 30 ELSE 60
                      [] q = "high" -> 60]]
  IN IF quality \in DOMAIN settings THEN settings[quality] ELSE settings["low"]

\* the mobile branch with the cap on strong hardware left out
mobileQuality_Uncapped(tier, memoryEstimate) ==
  IF tier = "HIGH" /\ memoryEstimate > 3000 THEN "high"
  ELSE IF tier = "MEDIUM" \/ memoryEstimate > 2000 THEN "low"
  ELSE "ultra-low"

\* the mobile branch of assessDeviceCapabilities
mobileQuality(tier, memoryEstimate) ==
  IF tier = "HIGH" /\ memoryEstimate > 3000 THEN "medium"
  ELSE IF tier = "MEDIUM" \/ memoryEstimate > 2000 THEN "low"
  ELSE "ultra-low"

\* the desktop branch with the low tier taken for the medium GPU as well
desktopQuality_MediumAsLow(tier) ==
  IF tier = "HIGH" THEN "high"
  ELSE IF tier = "MEDIUM" THEN "low"
  ELSE "medium"

\* the desktop branch of assessDeviceCapabilities
desktopQuality(tier) ==
  IF tier = "HIGH" THEN "high"
  ELSE IF tier = "MEDIUM" THEN "medium"
  ELSE "low"

\* qualityLevels of the slow-network adjustment
assessQualityLevels == <<"none", "ultra-low", "low", "medium", "high">>

\* the slow-network adjustment with currentIndex > 0 for currentIndex > 1
slowNetworkQuality_NoClamp(quality) ==
  LET currentIndex == IndexOf(assessQualityLevels, quality)
  IN IF currentIndex > 0 THEN At(assessQualityLevels, currentIndex - 1) ELSE quality

\* the adjustment for a slow network: one level down, not below 'ultra-low'
slowNetworkQuality(quality) ==
  LET currentIndex == IndexOf(assessQualityLevels, quality)
  IN IF currentIndex > 1 THEN At(assessQualityLevels, currentIndex - 1) ELSE quality

\* the recommendedQuality of assessDeviceCapabilities
recommendedQualityOf(d) ==
  LET base ==
        IF ~d.supported THEN "none"
        ELSE IF d.isMobile THEN mobileQuality(d.tier, d.memoryEstimate)
        ELSE desktopQuality(d.tier)
  IN IF d.network = "SLOW" THEN slowNetworkQuality(base) ELSE base

assessDeviceCapabilities(d) ==
  LET recommendedQuality == recommendedQualityOf(d)
  IN [recommendedQuality |-> recommendedQuality,
      modelPath |-> deviceGetModelPath(recommendedQuality),
      loadingStrategy |-> getLoadingStrategy(recommendedQuality, d.network),
      performanceSettings |-> getPerformanceSettings(recommendedQuality, d.isMobile)]

(***************************************************************************)
(* LODManager / OptimizedModelLoader: values                               *)
(***************************************************************************)
\* the modelType prop both pages pass to LODManager
modelType == "phoenix"

\* getModelPath of the loader: paths = modelPaths[modelType] || modelPaths.ynz,
\* then paths[quality] || paths['low']
getModelPath(quality, type) ==
  LET paths == IF type \in {"ynz", "phoenix"} THEN type ELSE "ynz"
  IN IF quality \in {"ultra-low", "low", "medium", "high"}
     THEN AssetPath(paths, quality)
     ELSE AssetPath(paths, "low")

\* useGLTF(modelPath || '/models/optimized/ynz-low.glb', ...)
useGLTFPath(assessment) ==
  IF assessment.modelPath # NoPath THEN assessment.modelPath
  ELSE AssetPath("ynz", "low")

\* useState(null) of deviceAssessment and of performanceSettings: every field
\* reads as a falsy value
NullSettings == [maxFPS |-> 0]
NullAssessment ==
  [recommendedQuality |-> "null", modelPath |-> NoPath,
   loadingStrategy |-> [timeout |-> 0, retryAttempts |-> 0],
   performanceSettings |-> NullSettings]

NoTimer ==
  [armed |-> FALSE, loadingProgress |-> 0, retryCount |-> 0,
   recommendedQuality |-> "null", retryAttempts |-> 0]

\* the order of the tiers, 'none' below all
Rank(quality) ==
  CASE quality = "high" -> 4
    [] quality = "medium" -> 3
    [] quality = "low" -> 2
    [] quality = "ultra-low" -> 1
    [] OTHER -> 0

(***************************************************************************)
(* PhoenixPerformanceMonitor: values                                       *)
(***************************************************************************)
\* calculateThresholds: baseThresholds[recommendedQuality] || baseThresholds.low
calculateThresholds(recommendedQuality) ==
  LET baseThresholds == [q \in {"ultra-low", "low", "medium", "high"} |->
        CASE q = "ultra-low" -> [minFPS |-> 20, maxRenderTime |-> 50, maxMemoryMB |-> 50,
                                 maxInteractionLatency |-> 200]
          [] q = "low" -> [minFPS |-> 25, maxRenderTime |-> 40, maxMemoryMB |-> 100,
                           maxInteractionLatency |-> 150]
          [] q = "medium" -> [minFPS |-> 35, maxRenderTime |-> 28, maxMemoryMB |-> 150,
                              maxInteractionLatency |-> 100]
          [] q = "high" -> [minFPS |-> 50, maxRenderTime |-> 20, maxMemoryMB |-> 200,
                            maxInteractionLatency |-> 50]]
  IN IF recommendedQuality \in DOMAIN baseThresholds
     THEN baseThresholds[recommendedQuality]
     ELSE baseThresholds["low"]

\* the monitor and OptimizedPhoenix as constructed on device d, nothing started
PhoenixConstructed(d) ==
  /\ thresholds = calculateThresholds(recommendedQualityOf(d))
  /\ isMonitoring = FALSE
  /\ renderTime = <<>>
  /\ animationFrames = <<>>
  /\ memoryUsageLog = <<>>
  /\ optimizationHistory = <<>>
  /\ performanceWarnings = 0
  /\ frameRates = <<>>
  /\ collectorMonitoring = FALSE
  /\ performanceMonitor = FALSE
  /\ currentQuality = recommendedQualityOf(d)
  /\ warningCallbacks = <<>>
  /\ warned = <<>>
  /\ interactionLatency = <<>>

\* the cache as constructed: no cleanup callback, nothing evicted yet
NoCleanupYet ==
  /\ cleanupCallbacks = <<>>
  /\ releases = <<>>
  /\ observed = <<>>

\* no asset path or profile has been looked up
NoLookup ==
  [quality |-> "null", type |-> "null", isMobile |-> FALSE, failed |-> FALSE,
   path |-> NoPath, devicePath |-> NoPath, phoenixPath |-> NoPath,
   maxFPS |-> 0, frameSkip |-> 0, maxRenderTime |-> 0]

\* no caller has read the statistics
NoStatsRead ==
  [taken |-> FALSE, path |-> NoPath, loadedModels |-> <<>>, memoryUsage |-> 0,
   nLoads |-> 0]

\* no monitor has been started: no timer, no loop, no listener
NoTimers ==
  /\ analysisTimers = 0
  /\ qualityTimers = 0
  /\ frameSamplers = 0
  /\ memorySamplers = 0
  /\ interactionListeners = 0
  /\ collectorLoops = <<>>
  /\ consumers = {}

\* the collector and the PerformanceMonitor as constructed
NoHistory ==
  /\ collectorMemoryUsage = <<>>
  /\ networkStats = <<>>
  /\ frames = <<>>

\* getAnimationOptimizer() has not been called: no optimizer exists
NoOptimizer ==
  /\ animationQuality = "null"
  /\ droppedFrames = 0
  /\ animationStats = [averageFPS |-> 60, droppedFrames |-> 0]

\* no constructor of ModelMemoryManager is running
NotConstructing == [quality |-> "null", depth |-> 0, outcome |-> "null"]

\* no load has started and no timer is armed
NoDeadline ==
  /\ loadElapsed = 0
  /\ timerElapsed = 0

\* the device the cache and the loader specifications leave the monitor on
DesktopDevice ==
  [supported |-> TRUE, isMobile |-> FALSE, tier |-> "MEDIUM",
   memoryEstimate |-> 4096, network |-> "FAST"]

\* no assessDeviceCapabilities() call has been followed
NotAssessed ==
  [deviceInfo |-> [supported |-> FALSE, isMobile |-> FALSE, tier |-> "null",
                   memoryEstimate |-> 0, network |-> "null"],
   assessment |-> NullAssessment]

\* the loader before its first render
LoaderUnmounted ==
  /\ deviceAssessment = NullAssessment
  /\ loadingProgress = 0
  /\ error = "null"
  /\ retryCount = 0
  /\ loadingTimeout = NoTimer
  /\ performanceSettings = NullSettings
  /\ fpsLoops = <<>>
  /\ requested = {}
  /\ onErrorCalls = 0
  /\ timeouts = 0
  /\ time = 0
  /\ fps = 0
  /\ lastDowngrade = -1
  /\ loadError = FALSE

(***************************************************************************)
(* ModelMemoryManager                                                      *)
(***************************************************************************)
cacheUnused == <<loaderVars, phoenixVars, assessVars, warningVars, evictionVars,
                lookupVars, deadlineVars,
                statsVars,
                monitoringVars,
                historyVars,
                animationVars,
                constructionVars>>

getMaxCacheSize(isMobile, maxTextureSize) ==
  IF isMobile THEN 50
  ELSE IF maxTextureSize < 4096 THEN 100
  ELSE 200

priorityOrder(p) == CASE p = "high" -> 3 [] p = "normal" -> 2 [] p = "low" -> 1

\* the comparator with the order of lastAccessed reversed
CompareModels_NewestFirst(modelA, modelB) ==
  IF modelA.priority # modelB.priority
  THEN priorityOrder(modelB.priority) - priorityOrder(modelA.priority)
  ELSE modelB.lastAccessed - modelA.lastAccessed

\* the comparator handed to Array.prototype.sort
CompareModels(modelA, modelB) ==
  IF modelA.priority # modelB.priority
  THEN priorityOrder(modelB.priority) - priorityOrder(modelA.priority)
  ELSE modelA.lastAccessed - modelB.lastAccessed

\* Array.prototype.sort is stable: an element goes after the elements that
\* compare lower or equal and came before it.
RECURSIVE InsertSorted(_, _)
InsertSorted(e, s) ==
  IF s = <<>> THEN <<e>>
  ELSE IF CompareModels(Head(s), e) > 0 THEN <<e>> \o s
  ELSE <<Head(s)>> \o InsertSorted(e, Tail(s))

RECURSIVE SortModels(_)
SortModels(s) ==
  IF s = <<>> THEN <<>>
  ELSE InsertSorted(s[Len(s)], SortModels(SubSeq(s, 1, Len(s) - 1)))

RECURSIVE SumMemory(_)
SumMemory(s) == IF s = <<>> THEN 0 ELSE Head(s).memoryUsage + SumMemory(Tail(s))

getCurrentMemoryUsage(models) == SumMemory(models)

\* Math.round(x * 100) / 100 on a value held in thousandths
RoundTo2Decimals(m) == ((m + 5) \div 10) * 10

updateMemoryUsage(models) == RoundTo2Decimals(SumMemory(models))

PathsOf(models) == {models[i].path : i \in 1..Len(models)}

HasModel(models, p) == \E i \in 1..Len(models) : models[i].path = p

RECURSIVE DeleteModel(_, _)
DeleteModel(models, p) ==
  IF models = <<>> THEN <<>>
  ELSE IF Head(models).path = p THEN Tail(models)
  ELSE <<Head(models)>> \o DeleteModel(Tail(models), p)

\* Map.set: an existing key keeps its place, a new key goes last
SetModel(models, entry) ==
  IF HasModel(models, entry.path)
  THEN [i \in 1..Len(models) |->
          IF models[i].path = entry.path THEN entry ELSE models[i]]
  ELSE Append(models, entry)

\* currentUsage <= targetUsage, with < for <=
AtTarget_Strict(currentUsage, cacheSize) == currentUsage * 10 < cacheSize * 1000 * 6

\* currentUsage <= targetUsage, targetUsage = this.maxCacheSize * 0.6
AtTarget(currentUsage, cacheSize) == currentUsage * 10 <= cacheSize * 1000 * 6

\* the for-loop of performMemoryCleanup over the sorted entries: the entries
\* it removes, in order
RECURSIVE EvictLoop(_, _, _)
EvictLoop(sorted, currentUsage, cacheSize) ==
  IF sorted = <<>> THEN <<>>
  ELSE IF AtTarget(currentUsage, cacheSize) THEN <<>>
  ELSE <<Head(sorted)>> \o
       EvictLoop(Tail(sorted), currentUsage - Head(sorted).memoryUsage, cacheSize)

RECURSIVE DeleteAll(_, _)
DeleteAll(models, removed) ==
  IF removed = <<>> THEN models
  ELSE DeleteAll(DeleteModel(models, Head(removed).path), Tail(removed))

\* performMemoryCleanup: the cache after it, and what it removed
CleanupResult(models, cacheSize) ==
  LET removed == EvictLoop(SortModels(models), getCurrentMemoryUsage(models), cacheSize)
      rest == DeleteAll(models, removed)
  IN [models |-> rest, evicted |-> removed]

\* ensureMemoryAvailable: cleanup when usage is above 80% of the ceiling
NeedsCleanup(models, cacheSize) ==
  getCurrentMemoryUsage(models) * 10 > cacheSize * 1000 * 8

\* loadingPromises.has(path): some pending load is the one registered for path
loadingPromisesHas(p) ==
  \E i \in 1..Len(inflight) : inflight[i].path = p /\ inflight[i].registered

\* loadingPromises.delete(path)
loadingPromisesDelete(loads, p) ==
  [i \in 1..Len(loads) |->
     IF loads[i].path = p THEN [loads[i] EXCEPT !.registered = FALSE] ELSE loads[i]]

RemoveAt(s, i) == SubSeq(s, 1, i - 1) \o SubSeq(s, i + 1, Len(s))

CacheInit ==
  /\ NoCleanupYet
  /\ lookup = NoLookup
  /\ NoDeadline
  /\ construction = NotConstructing
  /\ NoOptimizer
  /\ NoHistory
  /\ NoTimers
  /\ statsRead = NoStatsRead
  /\ loadedModels = <<>>
  /\ inflight = <<>>
  /\ nLoads = 0
  /\ memoryUsage = 0
  /\ \E isMobile \in BOOLEAN, maxTextureSize \in MaxTextureSizes :
       maxCacheSize = getMaxCacheSize(isMobile, maxTextureSize)
  /\ now = 0
  /\ webglSupported = TRUE
  /\ LoaderUnmounted
  /\ PhoenixConstructed(DesktopDevice)
  /\ deviceCapabilities = NotAssessed

\* loadModelProgressive up to its suspension on the fetch: the synchronous part
\* of the call and the continuation of loadModelInternal that follows
\* ensureMemoryAvailable and issues useGLTF.preload(modelPath)
loadModelProgressive(modelPath, priority) ==
  /\ UNCHANGED cacheUnused
  /\ \/ \* already loaded: refresh lastAccessed, return the cached data
        /\ HasModel(loadedModels, modelPath)
        /\ loadedModels' = [i \in 1..Len(loadedModels) |->
                              IF loadedModels[i].path = modelPath
                              THEN [loadedModels[i] EXCEPT !.lastAccessed = now]
                              ELSE loadedModels[i]]
        /\ UNCHANGED <<inflight, nLoads, memoryUsage, maxCacheSize, now>>
     \/ \* already loading: the caller gets the registered promise
        /\ ~HasModel(loadedModels, modelPath)
        /\ loadingPromisesHas(modelPath)
        /\ UNCHANGED <<loadedModels, inflight, nLoads, memoryUsage, maxCacheSize, now>>
     \/ \* start loading: ensureMemoryAvailable, then the fetch
        /\ ~HasModel(loadedModels, modelPath)
        /\ ~loadingPromisesHas(modelPath)
        /\ nLoads < MaxLoads
        /\ nLoads' = nLoads + 1
        /\ inflight' = Append(inflight,
             [path |-> modelPath, priority |-> priority, registered |-> TRUE,
              torn |-> FALSE])
        /\ IF NeedsCleanup(loadedModels, maxCacheSize)
           THEN LET r == CleanupResult(loadedModels, maxCacheSize)
                IN /\ loadedModels' = r.models
                   /\ memoryUsage' = updateMemoryUsage(r.models)
           ELSE UNCHANGED <<loadedModels, memoryUsage>>
        /\ UNCHANGED <<maxCacheSize, now>>

\* the fetch resolves: the entry is cached, the statistics updated, and the
\* first caller's continuation deletes the path from loadingPromises
FetchResolve(i) ==
  /\ UNCHANGED cacheUnused
  /\ i \in 1..Len(inflight)
  /\ LET l == inflight[i]
         cacheEntry == [path |-> l.path, memoryUsage |-> ModelSize(l.path),
                        lastAccessed |-> now, priority |-> l.priority]
     IN /\ loadedModels' = SetModel(loadedModels, cacheEntry)
        /\ memoryUsage' = updateMemoryUsage(SetModel(loadedModels, cacheEntry))
        /\ inflight' = loadingPromisesDelete(RemoveAt(inflight, i), l.path)
  /\ UNCHANGED <<nLoads, maxCacheSize, now>>

\* the fetch rejects: every caller gets the error, the path is forgotten
FetchReject(i) ==
  /\ UNCHANGED cacheUnused
  /\ i \in 1..Len(inflight)
  /\ inflight' = loadingPromisesDelete(RemoveAt(inflight, i), inflight[i].path)
  /\ UNCHANGED <<loadedModels, nLoads, memoryUsage, maxCacheSize, now>>

\* performMemoryCleanup without its closing this.updateMemoryUsage()
performMemoryCleanup_NoStats ==
  /\ UNCHANGED cacheUnused
  /\ loadedModels' = CleanupResult(loadedModels, maxCacheSize).models
  /\ UNCHANGED <<inflight, nLoads, memoryUsage, maxCacheSize, now>>

performMemoryCleanup ==
  /\ UNCHANGED cacheUnused
  /\ LET r == CleanupResult(loadedModels, maxCacheSize)
     IN /\ loadedModels' = r.models
        /\ memoryUsage' = updateMemoryUsage(r.models)
  /\ UNCHANGED <<inflight, nLoads, maxCacheSize, now>>

\* the 10-second interval of startMemoryMonitoring
MemoryMonitorTick ==
  /\ UNCHANGED cacheUnused
  /\ IF updateMemoryUsage(loadedModels) > maxCacheSize * 1000
     THEN LET r == CleanupResult(loadedModels, maxCacheSize)
          IN /\ loadedModels' = r.models
             /\ memoryUsage' = updateMemoryUsage(r.models)
     ELSE /\ memoryUsage' = updateMemoryUsage(loadedModels)
          /\ UNCHANGED <<loadedModels>>
  /\ UNCHANGED <<inflight, nLoads, maxCacheSize, now>>

clearCache ==
  /\ UNCHANGED cacheUnused
  /\ loadedModels' = <<>>
  /\ inflight' = [i \in 1..Len(inflight) |->
                    [inflight[i] EXCEPT !.registered = FALSE, !.torn = TRUE]]
  /\ memoryUsage' = updateMemoryUsage(<<>>)
  /\ UNCHANGED <<nLoads, maxCacheSize, now>>

\* Date.now() moves on. Timestamps are only compared with each other, so a
\* reading that no entry holds need not be distinguished from the next one.
CacheTick ==
  /\ UNCHANGED cacheUnused
  /\ now < MaxClock
  /\ \E i \in 1..Len(loadedModels) : loadedModels[i].lastAccessed = now
  /\ now' = now + 1
  /\ UNCHANGED <<loadedModels, inflight, nLoads, memoryUsage, maxCacheSize>>

CacheNext ==
  \/ \E p \in Paths, prio \in Priorities : loadModelProgressive(p, prio)
  \/ \E i \in 1..Len(inflight) : FetchResolve(i)
  \/ \E i \in 1..Len(inflight) : FetchReject(i)
  \/ performMemoryCleanup
  \/ MemoryMonitorTick
  \/ clearCache
  \/ CacheTick

SpecCache == CacheInit /\ [][CacheNext]_vars

(***************************************************************************)
(* ModelMemoryManager as one caller sees a load: it reads getMemoryStats()  *)
(* and the Map, calls loadModelProgressive for a path that is neither       *)
(* cached nor loading, and awaits the promise                               *)
(***************************************************************************)
failedLoadUnused == <<loaderVars, phoenixVars, assessVars, warningVars, evictionVars,
                     lookupVars, deadlineVars,
                     monitoringVars,
                     historyVars,
                     animationVars,
                     constructionVars>>

\* the caller reads the statistics and the Map before its call
readStatsBeforeLoad(modelPath) ==
  /\ ~statsRead.taken
  /\ inflight = <<>>
  /\ ~HasModel(loadedModels, modelPath)
  /\ nLoads < MaxLoads
  /\ statsRead' = [taken |-> TRUE, path |-> modelPath, loadedModels |-> loadedModels,
                   memoryUsage |-> memoryUsage, nLoads |-> nLoads]
  /\ UNCHANGED cacheVars
  /\ UNCHANGED failedLoadUnused

\* the caller's promise has settled and the caller goes away
forgetStats ==
  /\ statsRead.taken
  /\ nLoads > statsRead.nLoads
  /\ inflight = <<>>
  /\ statsRead' = NoStatsRead
  /\ UNCHANGED cacheVars
  /\ UNCHANGED failedLoadUnused

\* Between the reading and the settling of the promise nothing but the
\* caller's own load runs.
FailedLoadNext ==
  \/ \E p \in Paths, prio \in Priorities :
        ~statsRead.taken /\ loadModelProgressive(p, prio)
  \/ \E p \in Paths : readStatsBeforeLoad(p)
  \/ \E prio \in Priorities :
        /\ statsRead.taken
        /\ nLoads = statsRead.nLoads
        /\ loadModelProgressive(statsRead.path, prio)
  \/ \E i \in 1..Len(inflight) : FetchResolve(i)
  \/ \E i \in 1..Len(inflight) : FetchReject(i)
  \/ forgetStats
  \/ CacheTick

SpecFailedLoad == CacheInit /\ [][FailedLoadNext]_vars

\* the load the caller started after reading the statistics has failed
CallerLoadFailed ==
  /\ statsRead.taken
  /\ nLoads > statsRead.nLoads
  /\ inflight = <<>>
  /\ ~HasModel(loadedModels, statsRead.path)

\* C36: when the fetch of a loadModelProgressive call fails, the Map and the
\* statistics are what they were before the call, the path is not recorded
\* as loading, and a call for the same path would start a new fetch.
C36_FailedLoadChangesNothing ==
  CallerLoadFailed =>
     /\ loadedModels = statsRead.loadedModels
     /\ memoryUsage = statsRead.memoryUsage
     /\ ~loadingPromisesHas(statsRead.path)
     /\ ~HasModel(loadedModels, statsRead.path)

\* C36 (case reached): the caller's load has failed and the Map holds fewer
\* entries than before the call.
C36_EvictedForFailedLoad ==
  /\ CallerLoadFailed
  /\ Len(loadedModels) < Len(statsRead.loadedModels)
  /\ memoryUsage < statsRead.memoryUsage

(***************************************************************************)
(* ModelMemoryManager with cleanup callbacks: what disposeModel does to    *)
(* the entries a cleanup or clearCache removes                             *)
(***************************************************************************)
evictionUnused == <<loaderVars, phoenixVars, assessVars, warningVars, lookupVars,
                   deadlineVars,
                   statsVars,
                   monitoringVars,
                   historyVars,
                   animationVars,
                   constructionVars>>

\* the callbacks a page hands to registerCleanupCallback: one that reads
\* getMemoryStats() and one that throws
CleanupCallbacks == {"reader", "thrower"}

\* registerCleanupCallback: Set.add
registerCleanupCallback(callback) ==
  /\ \A i \in 1..Len(cleanupCallbacks) : cleanupCallbacks[i] # callback
  /\ cleanupCallbacks' = Append(cleanupCallbacks, callback)
  /\ UNCHANGED <<releases, observed>>
  /\ UNCHANGED cacheVars
  /\ UNCHANGED evictionUnused

\* the function registerCleanupCallback returned: Set.delete
unregisterCleanupCallback(callback) ==
  /\ \E i \in 1..Len(cleanupCallbacks) : cleanupCallbacks[i] = callback
  /\ cleanupCallbacks' = SelectSeq(cleanupCallbacks, LAMBDA c : c # callback)
  /\ UNCHANGED <<releases, observed>>
  /\ UNCHANGED cacheVars
  /\ UNCHANGED evictionUnused

\* disposeModel(entry.data). When a dispose() of a geometry, material or
\* texture throws (the paths in faulty), the outer catch ends the call: the
\* resources after it are not disposed and no callback is invoked. Otherwise
\* every callback is invoked, each inside its own try/catch.
disposeModel(entry, faulty) ==
  [path |-> entry.path,
   disposed |-> entry.path \notin faulty,
   called |-> IF entry.path \in faulty THEN <<>> ELSE cleanupCallbacks]

\* getMemoryStats() as a cleanup callback reads it while models is the content
\* of the Map: estimatedMemoryMB is the stored statistic, loadedModelsCount is
\* this.loadedModels.size; next to them the total and the count of models
getMemoryStats(models) ==
  [estimatedMemoryMB |-> memoryUsage, loadedModelsCount |-> Len(models),
   residentMemoryMB |-> updateMemoryUsage(models), residentCount |-> Len(models)]

\* the callbacks that read the statistics while entry is being disposed
Readers(entry, faulty) ==
  IF entry.path \in faulty THEN <<>>
  ELSE SelectSeq(cleanupCallbacks, LAMBDA c : c = "reader")

\* performMemoryCleanup with the disposal of what it removes: disposeModel runs
\* before the entry is deleted, the statistics are updated after the loop
performMemoryCleanupDisposing(faulty) ==
  /\ faulty \subseteq PathsOf(loadedModels)
  /\ LET r == CleanupResult(loadedModels, maxCacheSize)
         before(i) == DeleteAll(loadedModels, SubSeq(r.evicted, 1, i - 1))
     IN /\ loadedModels' = r.models
        /\ memoryUsage' = updateMemoryUsage(r.models)
        /\ releases' = [i \in 1..Len(r.evicted) |-> disposeModel(r.evicted[i], faulty)]
        /\ observed' = [i \in 1..Len(r.evicted) |->
                          [stats |-> getMemoryStats(before(i)),
                           readers |-> Readers(r.evicted[i], faulty)]]
  /\ UNCHANGED <<inflight, nLoads, maxCacheSize, now, cleanupCallbacks>>
  /\ UNCHANGED evictionUnused

\* clearCache with the disposal of the entries: forEach disposes every entry
\* while the Map is still complete, then the Map is cleared
clearCacheDisposing(faulty) ==
  /\ faulty \subseteq PathsOf(loadedModels)
  /\ loadedModels' = <<>>
  /\ inflight' = [i \in 1..Len(inflight) |->
                    [inflight[i] EXCEPT !.registered = FALSE, !.torn = TRUE]]
  /\ memoryUsage' = updateMemoryUsage(<<>>)
  /\ releases' = [i \in 1..Len(loadedModels) |-> disposeModel(loadedModels[i], faulty)]
  /\ observed' = [i \in 1..Len(loadedModels) |->
                    [stats |-> getMemoryStats(loadedModels),
                     readers |-> Readers(loadedModels[i], faulty)]]
  /\ UNCHANGED <<nLoads, maxCacheSize, now, cleanupCallbacks>>
  /\ UNCHANGED evictionUnused

\* Loads arrive while the cache is below the 80% mark, so that every cleanup
\* is one of the two operations above.
EvictionNext ==
  \/ \E callback \in CleanupCallbacks : registerCleanupCallback(callback)
  \/ \E callback \in CleanupCallbacks : unregisterCleanupCallback(callback)
  \/ \E p \in Paths, prio \in Priorities :
        /\ ~NeedsCleanup(loadedModels, maxCacheSize)
        /\ loadModelProgressive(p, prio)
  \/ \E i \in 1..Len(inflight) : FetchResolve(i)
  \/ \E faulty \in SUBSET Paths : performMemoryCleanupDisposing(faulty)
  \/ \E faulty \in SUBSET Paths : clearCacheDisposing(faulty)

SpecEviction == CacheInit /\ [][EvictionNext]_vars

(***************************************************************************)
(* Properties of the cache                                                 *)
(***************************************************************************)
\* C1: whenever an operation removes some entries and keeps others, no removed
\* entry has a higher priority than an entry that stays resident (low is
\* removed before normal, normal before high).
C1_LowerPriorityEvictedFirst ==
  [][\A i \in 1..Len(loadedModels), j \in 1..Len(loadedModels') :
       (loadedModels[i].path \notin PathsOf(loadedModels')
          /\ loadedModels'[j].path \in PathsOf(loadedModels))
       => priorityOrder(loadedModels[i].priority)
            <= priorityOrder(loadedModels'[j].priority)]_vars

\* C1 (case reached): entries of priorities low, high and normal are resident
\* with equal lastAccessed and their total is above the eviction target.
C1_ThreePrioritiesResident ==
  /\ Len(loadedModels) = 3
  /\ {loadedModels[i].priority : i \in 1..3} = Priorities
  /\ \A i \in 1..3 : loadedModels[i].lastAccessed = loadedModels[1].lastAccessed
  /\ getCurrentMemoryUsage(loadedModels) * 10 > maxCacheSize * 1000 * 6

C3_OneFetchPerPath ==
  \A i, j \in 1..Len(inflight) : inflight[i].path = inflight[j].path => i = j

\* C3 (case reached): a fetch is in flight for a path that loadingPromises no
\* longer holds, and the path is not resident.
C3_UnregisteredFetch ==
  \E i \in 1..Len(inflight) :
     /\ ~inflight[i].registered
     /\ ~loadingPromisesHas(inflight[i].path)
     /\ ~HasModel(loadedModels, inflight[i].path)

\* C11 (as stated): the resident total never exceeds maxCacheSize.
C11_WithinCeiling == getCurrentMemoryUsage(loadedModels) <= maxCacheSize * 1000

\* C11 (case reached): the resident total is at most 80% of the ceiling, so
\* that ensureMemoryAvailable evicted nothing, and a load is in flight whose
\* model does not fit under the ceiling.
C11_LoadThatDoesNotFit ==
  \E i \in 1..Len(inflight) :
     /\ ~HasModel(loadedModels, inflight[i].path)
     /\ ~NeedsCleanup(loadedModels, maxCacheSize)
     /\ loadedModels # <<>>
     /\ getCurrentMemoryUsage(loadedModels) + ModelSize(inflight[i].path)
          > maxCacheSize * 1000

\* the entries a step removes from the cache
Evicted == {loadedModels[i] : i \in {k \in 1..Len(loadedModels) :
                                       loadedModels[k].path \notin PathsOf(loadedModels')}}

C13_CompletionAfterClearIsNoOp ==
  [][\A i \in 1..Len(inflight) :
       (FetchResolve(i) /\ inflight[i].torn)
       => UNCHANGED <<loadedModels, memoryUsage>>]_vars

\* C13 (case reached): the cache has been cleared, its statistics are zero,
\* and a load that was pending at the time is still in flight.
C13_ClearedWithLoadInFlight ==
  /\ loadedModels = <<>>
  /\ memoryUsage = 0
  /\ \E i \in 1..Len(inflight) : inflight[i].torn

\* C30: among resident entries of equal priority a cleanup removes the one
\* with the smaller lastAccessed first, and of two with equal lastAccessed the
\* one inserted first; a cache hit gives its entry the newest lastAccessed.
C30_LeastRecentlyUsedFirst ==
  [][/\ \A i, k \in 1..Len(loadedModels) :
          (/\ loadedModels[i].path \notin PathsOf(loadedModels')
           /\ loadedModels[k].path \in PathsOf(loadedModels')
           /\ loadedModels[i].priority = loadedModels[k].priority)
          => \/ loadedModels[i].lastAccessed < loadedModels[k].lastAccessed
             \/ /\ loadedModels[i].lastAccessed = loadedModels[k].lastAccessed
                /\ i < k
     /\ PathsOf(loadedModels') = PathsOf(loadedModels) =>
          \A i \in 1..Len(loadedModels) :
             loadedModels'[i].lastAccessed # loadedModels[i].lastAccessed
             => /\ loadedModels'[i].path = loadedModels[i].path
                /\ \A k \in 1..Len(loadedModels) :
                     loadedModels'[k].lastAccessed <= loadedModels'[i].lastAccessed]_vars

\* C30 (case reached): of two resident entries of equal priority the one
\* inserted first was accessed last, and their total is above the target
\* while one of them alone is not.
C30_OlderEntryRefreshed ==
  /\ Len(loadedModels) = 2
  /\ loadedModels[1].priority = loadedModels[2].priority
  /\ loadedModels[1].lastAccessed > loadedModels[2].lastAccessed
  /\ getCurrentMemoryUsage(loadedModels) * 10 > maxCacheSize * 1000 * 6
  /\ loadedModels[1].memoryUsage * 10 <= maxCacheSize * 1000 * 6

\* C21: what a cleanup callback reads from getMemoryStats() during an
\* eviction is the total and the count of the entries resident at that moment.
C21_StatsDuringEviction ==
  \A i \in 1..Len(observed) :
     observed[i].readers # <<>> =>
        /\ observed[i].stats.estimatedMemoryMB = observed[i].stats.residentMemoryMB
        /\ observed[i].stats.loadedModelsCount = observed[i].stats.residentCount

\* C21 (case reached): a cleanup has removed two entries and a callback has
\* read the statistics while the second one was being disposed.
C21_ReadDuringSecondRemoval ==
  /\ Len(observed) >= 2
  /\ observed[2].readers # <<>>
  /\ observed[2].stats.loadedModelsCount < observed[1].stats.loadedModelsCount

\* C22: every entry a step removes has been handed to disposeModel exactly
\* once, its resources are disposed, and every registered cleanup callback has
\* been invoked for it exactly once.
C22_ReleasedOnEviction ==
  [][\A i \in 1..Len(loadedModels) :
        loadedModels[i].path \notin PathsOf(loadedModels') =>
           LET calls == {k \in 1..Len(releases') :
                           releases'[k].path = loadedModels[i].path}
           IN /\ Cardinality(calls) = 1
              /\ \A k \in calls :
                    /\ releases'[k].disposed
                    /\ releases'[k].called = cleanupCallbacks]_vars

\* C22 (case reached): an entry has been removed whose disposal threw while
\* cleanup callbacks were registered.
C22_RemovedAfterFailedDispose ==
  /\ cleanupCallbacks # <<>>
  /\ \E k \in 1..Len(releases) :
        /\ ~releases[k].disposed
        /\ releases[k].path \notin PathsOf(loadedModels)

(***************************************************************************)
(* LODManager / OptimizedModelLoader                                       *)
(*                                                                         *)
(* One action is one callback (mount, progress event, timer, animation     *)
(* frame) together with the renders it causes and the effects those        *)
(* renders run.                                                            *)
(***************************************************************************)
loaderUnused == <<cacheVars, phoenixVars, assessVars, warningVars, evictionVars,
                 lookupVars, deadlineVars,
                 statsVars,
                 monitoringVars,
                 historyVars,
                 animationVars,
                 constructionVars>>

\* the timeout effect: the timer it arms and the render its callback closes over
ArmTimeout(assessment, progress, count) ==
  IF assessment.loadingStrategy.timeout # 0 /\ assessment.modelPath # NoPath
  THEN [armed |-> TRUE, loadingProgress |-> progress, retryCount |-> count,
        recommendedQuality |-> assessment.recommendedQuality,
        retryAttempts |-> assessment.loadingStrategy.retryAttempts]
  ELSE NoTimer

\* The render that follows a callback and the effects it runs, in the order of
\* their declaration. assessment, progress and count are the new state;
\* timerLeft and loopsLeft are the timer and the loops as the callback left
\* them; assessmentSet tells that setDeviceAssessment stored a new object.
\*  - timeout effect, deps [modelPath, loadingStrategy, loadingProgress]: the
\*    cleanup clears the timer, the effect arms a new one;
\*  - performance effect, deps [gl, performanceSettings, deviceAssessment]: the
\*    cleanup cancels the id of the first frame request, which stops the loop
\*    only if that frame has not run yet; the effect starts a new loop;
\*  - onLoad effect: handleModelLoad stores assessment.performanceSettings in
\*    the LODManager, whose render runs the performance effect once more.
Commit(assessment, progress, count, timerLeft, loopsLeft, assessmentSet) ==
  LET timeoutDeps == \/ assessment.modelPath # deviceAssessment.modelPath
                     \/ assessment.loadingStrategy # deviceAssessment.loadingStrategy
                     \/ progress # loadingProgress
      onLoadDeps == assessmentSet \/ progress # loadingProgress
      settings == IF onLoadDeps /\ progress >= 100
                  THEN assessment.performanceSettings
                  ELSE performanceSettings
      performanceDeps == assessmentSet \/ settings # performanceSettings
      kept == IF performanceDeps
              THEN SelectSeq(loopsLeft, LAMBDA l : l.started)
              ELSE loopsLeft
      loops == IF performanceDeps /\ settings.maxFPS # 0
               THEN Append(kept, [recommendedQuality |-> assessment.recommendedQuality,
                                  maxFPS |-> settings.maxFPS, lowFPSCount |-> 0,
                                  started |-> FALSE, due |-> FALSE])
               ELSE kept
  IN /\ deviceAssessment' = assessment
     /\ loadingProgress' = progress
     /\ retryCount' = count
     /\ loadingTimeout' = IF timeoutDeps THEN ArmTimeout(assessment, progress, count)
                          ELSE timerLeft
     /\ performanceSettings' = settings
     /\ fpsLoops' = loops
     /\ requested' = requested \cup {useGLTFPath(deviceAssessment), useGLTFPath(assessment)}

\* first render (useGLTF with the fallback path) and the mount effect
MountEffect ==
  /\ deviceAssessment = NullAssessment
  /\ \E d \in Devices :
       /\ d.supported = webglSupported
       /\ LET assessed == assessDeviceCapabilities(d)
              assessment == [assessed EXCEPT
                 !.modelPath = getModelPath(assessed.recommendedQuality, modelType)]
          IN Commit(assessment, loadingProgress, retryCount, loadingTimeout, fpsLoops, TRUE)
  /\ UNCHANGED <<webglSupported, loadError, error, onErrorCalls, timeouts, time, fps, lastDowngrade>>

Mount ==
  /\ MountEffect
  /\ UNCHANGED loaderUnused

\* the progress callback handed to useGLTF
ProgressCallback(percentage) ==
  /\ deviceAssessment # NullAssessment
  /\ ~loadError
  /\ percentage # loadingProgress
  /\ Commit(deviceAssessment, percentage, retryCount, loadingTimeout, fpsLoops, FALSE)
  /\ UNCHANGED <<webglSupported, loadError, error, onErrorCalls, timeouts, time, fps, lastDowngrade>>

Progress(percentage) ==
  /\ ProgressCallback(percentage)
  /\ UNCHANGED loaderUnused

\* retryCount < (loadingStrategy?.retryAttempts || 1), with <= for <
RetryAllowed_Inclusive(count, retryAttempts) ==
  count <= (IF retryAttempts = 0 THEN 1 ELSE retryAttempts)

\* retryCount < (loadingStrategy?.retryAttempts || 1)
RetryAllowed(count, retryAttempts) ==
  count < (IF retryAttempts = 0 THEN 1 ELSE retryAttempts)

\* qualityLevels of handleLoadingError and of the performance effect
loaderQualityLevels == <<"high", "medium", "low", "ultra-low">>

\* deviceAssessment?.recommendedQuality || 'low'
QualityOrLow(quality) == IF quality = "null" THEN "low" ELSE quality

\* handleLoadingError as the timer callback holds it: retryCount, loadingStrategy
\* and deviceAssessment are those of the render that armed the timer
handleLoadingError(closure) ==
  IF RetryAllowed(closure.retryCount, closure.retryAttempts)
  THEN LET currentIndex == IndexOf(loaderQualityLevels, QualityOrLow(closure.recommendedQuality))
           fallbackQuality == At(loaderQualityLevels,
                                 Min(currentIndex + 1, Len(loaderQualityLevels) - 1))
           assessment == [deviceAssessment EXCEPT
                            !.recommendedQuality = fallbackQuality,
                            !.modelPath = getModelPath(fallbackQuality, modelType)]
       IN /\ Commit(assessment, 0, retryCount + 1, NoTimer, fpsLoops, TRUE)
          /\ error' = "null"
          /\ UNCHANGED onErrorCalls
  ELSE /\ Commit(deviceAssessment, loadingProgress, retryCount, NoTimer, fpsLoops, FALSE)
       /\ error' = "failed"
       /\ onErrorCalls' = onErrorCalls + 1

\* the setTimeout callback of the timeout effect
TimeoutCallback ==
  /\ loadingTimeout.armed
  /\ IF loadingTimeout.loadingProgress < 100
     THEN /\ timeouts < MaxTimeouts
          /\ timeouts' = timeouts + 1
          /\ handleLoadingError(loadingTimeout)
     ELSE /\ Commit(deviceAssessment, loadingProgress, retryCount, NoTimer, fpsLoops, FALSE)
          /\ UNCHANGED <<error, onErrorCalls, timeouts>>
  /\ UNCHANGED <<webglSupported, loadError, time, fps, lastDowngrade>>

\* The timer fires; the delay (15 or 30 s) is not measured against the clock of
\* the frame loops.
TimerFire ==
  /\ TimeoutCallback
  /\ UNCHANGED loaderUnused

\* the next animation frame: the loops requested since the last one run their
\* first checkPerformance and request the following frame under a new id
AnimationFrame ==
  /\ \E i \in 1..Len(fpsLoops) : ~fpsLoops[i].started
  /\ fpsLoops' = [i \in 1..Len(fpsLoops) |-> [fpsLoops[i] EXCEPT !.started = TRUE]]
  /\ UNCHANGED <<webglSupported, loadError, deviceAssessment, loadingProgress, error, retryCount,
                 loadingTimeout, performanceSettings, requested, onErrorCalls,
                 timeouts, time, fps, lastDowngrade>>
  /\ UNCHANGED loaderUnused

\* a second of frames has passed: every loop reaches currentTime - lastTime >= 1000
\* with frameCount = framesCounted. No code reads the clock while no loop runs.
Tick(framesCounted) ==
  /\ time < MaxTime
  /\ fpsLoops # <<>>
  /\ \A i \in 1..Len(fpsLoops) : fpsLoops[i].started /\ ~fpsLoops[i].due
  /\ time' = time + 1
  /\ fps' = framesCounted
  /\ fpsLoops' = [i \in 1..Len(fpsLoops) |-> [fpsLoops[i] EXCEPT !.due = TRUE]]
  /\ UNCHANGED <<webglSupported, loadError, deviceAssessment, loadingProgress, error, retryCount,
                 loadingTimeout, performanceSettings, requested, onErrorCalls,
                 timeouts, lastDowngrade>>
  /\ UNCHANGED loaderUnused

\* the once-a-second branch of checkPerformance in the oldest loop that has
\* reached it; a loop works on the deviceAssessment and performanceSettings of
\* the render that started it
LoopSecond ==
  /\ \E i \in 1..Len(fpsLoops) : fpsLoops[i].due
  /\ LET i == CHOOSE k \in 1..Len(fpsLoops) :
                 fpsLoops[k].due /\ \A j \in 1..(k - 1) : ~fpsLoops[j].due
         loop == fpsLoops[i]
         counted(n) == [fpsLoops EXCEPT ![i].lowFPSCount = n, ![i].due = FALSE]
         currentIndex == IndexOf(loaderQualityLevels, QualityOrLow(loop.recommendedQuality))
     IN IF fps * 10 < loop.maxFPS * 7
        THEN IF loop.lowFPSCount + 1 >= 3
             THEN IF currentIndex < Len(loaderQualityLevels) - 1
                  THEN LET lowerQuality == At(loaderQualityLevels, currentIndex + 1)
                           assessment == [deviceAssessment EXCEPT
                              !.recommendedQuality = lowerQuality,
                              !.modelPath = getModelPath(lowerQuality, modelType)]
                       IN /\ Commit(assessment, loadingProgress, retryCount,
                                    loadingTimeout, counted(0), TRUE)
                          /\ lastDowngrade' =
                               IF Rank(lowerQuality) < Rank(deviceAssessment.recommendedQuality)
                               THEN time ELSE lastDowngrade
                  ELSE /\ Commit(deviceAssessment, loadingProgress, retryCount,
                                 loadingTimeout, counted(0), FALSE)
                       /\ UNCHANGED lastDowngrade
             ELSE /\ Commit(deviceAssessment, loadingProgress, retryCount,
                            loadingTimeout, counted(loop.lowFPSCount + 1), FALSE)
                  /\ UNCHANGED lastDowngrade
        ELSE /\ Commit(deviceAssessment, loadingProgress, retryCount,
                       loadingTimeout, counted(0), FALSE)
             /\ UNCHANGED lastDowngrade
  /\ UNCHANGED <<webglSupported, loadError, error, onErrorCalls, timeouts, time, fps>>
  /\ UNCHANGED loaderUnused

\* The load of the current asset fails with a transport or parsing error:
\* useGLTF throws it into the render of the loader. The loader has no handler
\* for it (handleLoadingError is called by the timer only), so the component is
\* unmounted with its state as it was: the cleanup of the timeout effect clears
\* the timer, and what the frame loops still set reaches no component.
LoadError ==
  /\ deviceAssessment # NullAssessment
  /\ ~loadError
  /\ loadingProgress < 100
  /\ loadError' = TRUE
  /\ loadingTimeout' = NoTimer
  /\ fpsLoops' = <<>>
  /\ UNCHANGED <<webglSupported, deviceAssessment, loadingProgress, error, retryCount,
                 performanceSettings, requested, onErrorCalls, timeouts, time, fps,
                 lastDowngrade>>
  /\ UNCHANGED loaderUnused

\* frames counted in a second: a stalled and a smooth second
FrameCounts == {15, 60}
\* (progress.loaded / progress.total) * 100 of a progress event
Percentages == {50, 100}

LoaderInit ==
  /\ NoCleanupYet
  /\ lookup = NoLookup
  /\ NoDeadline
  /\ construction = NotConstructing
  /\ NoOptimizer
  /\ NoHistory
  /\ NoTimers
  /\ statsRead = NoStatsRead
  /\ webglSupported \in BOOLEAN
  /\ LoaderUnmounted
  /\ loadedModels = <<>>
  /\ inflight = <<>>
  /\ nLoads = 0
  /\ memoryUsage = 0
  /\ maxCacheSize = getMaxCacheSize(FALSE, 2048)
  /\ now = 0
  /\ PhoenixConstructed(DesktopDevice)
  /\ deviceCapabilities = NotAssessed

LoaderNext ==
  \/ Mount
  \/ \E percentage \in Percentages : Progress(percentage)
  \/ TimerFire
  \/ LoadError
  \/ AnimationFrame
  \/ \E framesCounted \in FrameCounts : Tick(framesCounted)
  \/ LoopSecond

SpecLoader == LoaderInit /\ [][LoaderNext]_vars

\* One load and its retries alone: no frame is rendered, every load either
\* makes progress or stalls, and a timer that stays armed fires (setTimeout
\* runs its callback once the delay has passed).
LoadAttemptNext ==
  \/ Mount
  \/ \E percentage \in Percentages : Progress(percentage)
  \/ TimerFire

SpecLoaderFair == LoaderInit /\ [][LoadAttemptNext]_vars /\ WF_vars(TimerFire)

(***************************************************************************)
(* The loader with the delay of its deadline timer measured: the time since *)
(* the load of the current asset path started and the time since the timer *)
(* was armed, in units of five seconds                                     *)
(***************************************************************************)
deadlineUnused == <<cacheVars, phoenixVars, assessVars, warningVars, evictionVars,
                   lookupVars,
                   statsVars,
                   monitoringVars,
                   historyVars,
                   animationVars,
                   constructionVars>>

\* milliseconds in a unit of time
DeadlineUnit == 5000

\* loadingStrategy.timeout, the delay handed to setTimeout, in units
TimeoutUnits == deviceAssessment.loadingStrategy.timeout \div DeadlineUnit

\* the timer is armed and its delay has passed
TimerDue == loadingTimeout.armed /\ timerElapsed >= TimeoutUnits

\* this step ran the timeout effect: one of its dependencies changed
TimeoutEffectRan ==
  \/ deviceAssessment'.modelPath # deviceAssessment.modelPath
  \/ deviceAssessment'.loadingStrategy # deviceAssessment.loadingStrategy
  \/ loadingProgress' # loadingProgress

\* the clocks after a step of the loader: useGLTF starts a load when it is
\* called with another path, setTimeout starts the delay anew
Clocks ==
  /\ loadElapsed' = IF deviceAssessment'.modelPath # deviceAssessment.modelPath
                    THEN 0 ELSE loadElapsed
  /\ timerElapsed' = IF TimeoutEffectRan THEN 0 ELSE timerElapsed

DeadlineMount ==
  /\ MountEffect
  /\ Clocks
  /\ UNCHANGED deadlineUnused

DeadlineProgress(percentage) ==
  /\ ProgressCallback(percentage)
  /\ Clocks
  /\ UNCHANGED deadlineUnused

DeadlineTimerFire ==
  /\ TimerDue
  /\ TimeoutCallback
  /\ Clocks
  /\ UNCHANGED deadlineUnused

\* a unit of time passes; a timer that is due fires first
TimePasses ==
  /\ deviceAssessment # NullAssessment
  /\ ~TimerDue
  /\ loadElapsed < MaxElapsed
  /\ loadElapsed' = loadElapsed + 1
  /\ timerElapsed' = IF loadingTimeout.armed THEN timerElapsed + 1 ELSE timerElapsed
  /\ UNCHANGED loaderVars
  /\ UNCHANGED deadlineUnused

DeadlineNext ==
  \/ DeadlineMount
  \/ \E percentage \in Percentages : DeadlineProgress(percentage)
  \/ DeadlineTimerFire
  \/ TimePasses

SpecDeadline == LoaderInit /\ [][DeadlineNext]_vars

(***************************************************************************)
(* Properties of the loader                                                *)
(***************************************************************************)
\* the retry limit N the loader works with
RetryLimit ==
  IF deviceAssessment.loadingStrategy.retryAttempts = 0 THEN 1
  ELSE deviceAssessment.loadingStrategy.retryAttempts

Assessed == deviceAssessment # NullAssessment

\* the cool-down window of the automatic downgrade, in seconds
CoolDownSeconds == 3

\* C4: on a device whose probe obtains no WebGL context the assessment is
\* 'none', no asset path is resolved for it and useGLTF is never called.
C4_UnsupportedLoadsNothing ==
  ~webglSupported =>
     /\ requested = {}
     /\ Assessed =>
          /\ deviceAssessment.recommendedQuality = "none"
          /\ deviceGetModelPath(deviceAssessment.recommendedQuality) = NoPath
          /\ deviceAssessment.modelPath = NoPath

\* C4 (case reached): the probe found no WebGL context and the assessment says
\* 'none', yet the low-quality asset has been requested.
C4_UnsupportedRequestsLow ==
  /\ ~webglSupported
  /\ deviceAssessment.recommendedQuality = "none"
  /\ AssetPath(modelType, "low") \in requested

\* C5 (as stated): once N = retryAttempts load timeouts have happened the
\* loader is in the failed state.
C5_FailedAfterNTimeouts ==
  (Assessed /\ timeouts >= RetryLimit) => error = "failed"

\* C5 (amended): the loader is in the failed state exactly when more than N
\* load timeouts have happened (the first attempt and N retries); up to N
\* timeouts each one is answered by a retry, after that retryCount stays N.
C5_FailedAfterNPlusOneTimeouts ==
  Assessed =>
     /\ timeouts > RetryLimit => (error = "failed" /\ retryCount = RetryLimit)
     /\ timeouts <= RetryLimit => (error = "null" /\ retryCount = timeouts)

\* C5 (case reached): with N = 2 the third timeout has put the loader into the
\* failed state.
C5_ThirdTimeoutFails ==
  /\ RetryLimit = 2
  /\ timeouts = 3
  /\ retryCount = 2
  /\ error = "failed"

\* C6: onError has been called exactly once when the loader is in the failed
\* state, and not at all otherwise.
C6_OnErrorExactlyOnce ==
  /\ error = "failed" => onErrorCalls = 1
  /\ error # "failed" => onErrorCalls = 0

\* C6 (case reached): the retries are exhausted, onError has been called once,
\* and a later progress event has armed the timer again.
C6_FailedAndTimerArmed ==
  /\ error = "failed"
  /\ onErrorCalls = 1
  /\ loadingTimeout.armed
  /\ loadingTimeout.loadingProgress < 100

\* C9: between two consecutive step-downs of the tier made by the performance
\* check at least one full cool-down window elapses.
C9_CoolDownBetweenDowngrades ==
  [][(/\ Rank(deviceAssessment'.recommendedQuality) < Rank(deviceAssessment.recommendedQuality)
      /\ retryCount' = retryCount
      /\ lastDowngrade >= 0)
     => time - lastDowngrade >= CoolDownSeconds]_vars

\* C9 (case reached): the performance check has stepped the tier down and two
\* loops with different tiers in their closures are counting low-FPS seconds.
C9_TwoLoopsAfterDowngrade ==
  /\ lastDowngrade >= 0
  /\ \E i, j \in 1..Len(fpsLoops) :
        /\ fpsLoops[i].recommendedQuality # fpsLoops[j].recommendedQuality
        /\ fpsLoops[i].lowFPSCount > 0
        /\ fpsLoops[j].lowFPSCount > 0

\* C10: after the initial assessment the tier never increases in the order
\* ultra-low < low < medium < high.
C10_TierNeverIncreases ==
  [][deviceAssessment.recommendedQuality \in {"ultra-low", "low", "medium", "high"}
     => Rank(deviceAssessment'.recommendedQuality)
          <= Rank(deviceAssessment.recommendedQuality)]_vars

\* C10 (case reached): the tier is below the one a running loop closed over.
C10_StaleLoop ==
  \E i \in 1..Len(fpsLoops) :
     /\ fpsLoops[i].started
     /\ fpsLoops[i].recommendedQuality \in {"medium", "high"}
     /\ Rank(deviceAssessment.recommendedQuality) < Rank(fpsLoops[i].recommendedQuality)

\* C33: at most one FPS-monitoring loop of the loader is alive on
\* requestAnimationFrame: the cleanup of the performance effect ends the loop
\* of the previous run before the next one starts.
C33_SingleFPSLoop == Len(fpsLoops) <= 1

\* C33 (case reached): two loops have run their first frame and both go on
\* requesting frames, the older one started by an effect run that has been
\* cleaned up.
C33_TwoLoopsRunning ==
  \E i, j \in 1..Len(fpsLoops) :
     /\ i < j
     /\ fpsLoops[i].started
     /\ fpsLoops[j].started

\* C14: the tier changes only while no load is in flight: a step outside the
\* retry of a failed load changes recommendedQuality only when the current
\* load has settled, as ready (progress 100) or as failed.
C14_NoTransitionDuringLoad ==
  [][(/\ Assessed
      /\ deviceAssessment'.recommendedQuality # deviceAssessment.recommendedQuality
      /\ retryCount' = retryCount)
     => (loadingProgress >= 100 \/ error = "failed")]_vars

\* C14 (case reached): a load is in flight (progress below 100, no failure) and
\* a frame loop has counted two low-FPS seconds with a tier to step down to.
C14_LoopCountingDuringLoad ==
  /\ Assessed
  /\ loadingProgress < 100
  /\ error = "null"
  /\ ~loadError
  /\ \E i \in 1..Len(fpsLoops) :
        /\ fpsLoops[i].lowFPSCount = 2
        /\ Rank(fpsLoops[i].recommendedQuality) > 1

\* C18: a load error that arrives while retries are left is answered like a
\* timeout: retryCount goes up by one and the asset of the next-lower tier is
\* requested, and nothing is surfaced.
C18_LoadErrorIsRetried ==
  [][(/\ loadError' # loadError
      /\ RetryAllowed(retryCount, deviceAssessment.loadingStrategy.retryAttempts))
     => /\ retryCount' = retryCount + 1
        /\ Rank(deviceAssessment'.recommendedQuality)
             = Rank(At(loaderQualityLevels,
                       Min(IndexOf(loaderQualityLevels,
                                   QualityOrLow(deviceAssessment.recommendedQuality)) + 1,
                           Len(loaderQualityLevels) - 1)))
        /\ onErrorCalls' = onErrorCalls]_vars

\* C18 (case reached): a load has failed with an error while retries were left;
\* no retry was made and the tier is the assessed one.
C18_LoadErrorWithRetriesLeft ==
  /\ loadError
  /\ retryCount = 0
  /\ timeouts = 0
  /\ Rank(deviceAssessment.recommendedQuality) > 1

\* C24: once the tier is 'none' no step changes it.
C24_NoneIsFinal ==
  [][deviceAssessment.recommendedQuality = "none"
     => deviceAssessment'.recommendedQuality = "none"]_vars

\* C24 (case reached): the tier is 'none' and the deadline timer of a load is
\* armed with a retry left.
C24_NoneWithTimerArmed ==
  /\ deviceAssessment.recommendedQuality = "none"
  /\ loadingTimeout.armed
  /\ loadingTimeout.loadingProgress < 100
  /\ RetryAllowed(loadingTimeout.retryCount, loadingTimeout.retryAttempts)

\* a load is in flight / the loader has settled as ready or as failed
Loading == Assessed /\ error = "null" /\ loadingProgress < 100
Settled == error = "failed" \/ loadingProgress >= 100

\* C28: whenever a load is in flight the loader eventually is ready or failed.
C28_LoadEventuallySettles == Loading ~> Settled

\* C28 (case reached): a retry has been made, its load is in flight and no
\* deadline timer is armed.
C28_RetryWithoutTimer ==
  /\ Loading
  /\ retryCount > 0
  /\ ~loadingTimeout.armed

\* C26: while a load is in flight and its deadline timer is pending, no more
\* than loadingStrategy.timeout has passed since the load of the current asset
\* path started, whatever progress events have arrived; the delay on a slow
\* network is not shorter than the other one.
C26_DeadlineFromLoadStart ==
  /\ (Loading /\ loadingTimeout.armed) => loadElapsed <= TimeoutUnits
  /\ getLoadingStrategy("low", "SLOW").timeout >= getLoadingStrategy("low", "FAST").timeout

\* C26 (case reached): a progress event has armed the timer anew after the
\* load had started, and the load is still in flight.
C26_TimerYoungerThanLoad ==
  /\ Loading
  /\ loadingTimeout.armed
  /\ loadingTimeout.loadingProgress = 50
  /\ timerElapsed < loadElapsed

\* C29: every change of the tier lowers it by exactly one step (so there is
\* none at ultra-low).
C29_OneStepPerDowngrade ==
  [][(/\ Assessed
      /\ deviceAssessment'.recommendedQuality # deviceAssessment.recommendedQuality)
     => Rank(deviceAssessment'.recommendedQuality)
          = Rank(deviceAssessment.recommendedQuality) - 1]_vars

\* C29 (case reached): a loop that closed over 'high' has counted two low-FPS
\* seconds and is due for the third while the tier is 'low' or below.
C29_StaleLoopDue ==
  \E i \in 1..Len(fpsLoops) :
     /\ fpsLoops[i].due
     /\ fpsLoops[i].lowFPSCount = 2
     /\ fpsLoops[i].recommendedQuality = "high"
     /\ fps * 10 < fpsLoops[i].maxFPS * 7
     /\ Rank(deviceAssessment.recommendedQuality) <= 2

(***************************************************************************)
(* PhoenixPerformanceMonitor, PerformanceMetrics and the quality           *)
(* adjustment of OptimizedPhoenix, as they run together on one page        *)
(***************************************************************************)
phoenixUnused == <<cacheVars, loaderVars, assessVars, evictionVars, lookupVars,
                  deadlineVars,
                  statsVars,
                  monitoringVars,
                  historyVars,
                  animationVars,
                  constructionVars>>

\* requestAnimationFrame render times (ms): a fast and a slow frame
RenderTimes == {10, 70}
\* model memory plus JS heap (MB): a footprint between the limits of the 'low'
\* and the 'medium' tier, and one beyond every limit
MemoryTotals == {120, 300}

\* array.push(x) followed by shift() when the length exceeds cap
PushCapped(history, x, cap) ==
  IF Len(history) + 1 > cap THEN Tail(Append(history, x)) ELSE Append(history, x)

\* array.slice(-n)
LastN(history, n) ==
  IF Len(history) <= n THEN history ELSE SubSeq(history, Len(history) - n + 1, Len(history))

RECURSIVE SumOf(_)
SumOf(history) == IF history = <<>> THEN 0 ELSE Head(history) + SumOf(Tail(history))

\* getCurrentPerformanceSnapshot: the averages as sum and count of the recent
\* samples, currentMemory = -1 for null
getCurrentPerformanceSnapshot ==
  LET recentRenderTimes == LastN(renderTime, 10)
      recentAnimationFrames == LastN(animationFrames, 5)
      recentMemory == LastN(memoryUsageLog, 3)
  IN [renderSum |-> SumOf(recentRenderTimes), renderCount |-> Len(recentRenderTimes),
      fpsSum |-> SumOf(recentAnimationFrames), fpsCount |-> Len(recentAnimationFrames),
      currentMemory |-> IF recentMemory # <<>> THEN recentMemory[Len(recentMemory)] ELSE -1]

\* avgRenderTime > limit * num / den, with avgRenderTime = 0 when there is no sample
RenderTimeAbove(snapshot, limit, num, den) ==
  IF snapshot.renderCount > 0
  THEN snapshot.renderSum * den > limit * num * snapshot.renderCount
  ELSE 0 > limit * num

\* avgFPS < limit * num / den, with avgFPS = 60 when there is no sample
FPSBelow(snapshot, limit, num, den) ==
  IF snapshot.fpsCount > 0
  THEN snapshot.fpsSum * den < limit * num * snapshot.fpsCount
  ELSE 60 * den < limit * num

\* currentMemory is set and its total > limit * num / den
MemoryAbove(snapshot, limit, num, den) ==
  snapshot.currentMemory # -1 /\ snapshot.currentMemory * den > limit * num

\* the issues shouldRecommendQualityDowngrade counts against the given limits
IssuesAgainst(snapshot, limits) ==
  (IF RenderTimeAbove(snapshot, limits.maxRenderTime, 12, 10) THEN 1 ELSE 0)
  + (IF FPSBelow(snapshot, limits.minFPS, 8, 10) THEN 1 ELSE 0)
  + (IF MemoryAbove(snapshot, limits.maxMemoryMB, 11, 10) THEN 1 ELSE 0)

\* the issues counted by shouldRecommendQualityDowngrade: this.thresholds
Issues(snapshot) == IssuesAgainst(snapshot, thresholds)

\* shouldRecommendQualityDowngrade returning on one issue
shouldRecommendQualityDowngrade_OneIssue(snapshot) == Issues(snapshot) >= 1

shouldRecommendQualityDowngrade(snapshot) == Issues(snapshot) >= 2

\* PerformanceMetrics.getReport().performance.averageFPS
averageFPS ==
  IF Len(frameRates) > 0
  THEN (2 * SumOf(frameRates) + Len(frameRates)) \div (2 * Len(frameRates))
  ELSE 0

\* performanceMode prop of OptimizedPhoenix on both pages
performanceMode == "auto"

\* the forEach of triggerPerformanceWarning without its try/catch: the first
\* callback that throws ends the iteration
triggerPerformanceWarning_NoCatch(callbacks) ==
  IF \E i \in 1..Len(callbacks) : callbacks[i] = "thrower"
  THEN SubSeq(callbacks, 1, CHOOSE i \in 1..Len(callbacks) :
                              /\ callbacks[i] = "thrower"
                              /\ \A j \in 1..(i - 1) : callbacks[j] # "thrower")
  ELSE callbacks

\* the forEach of triggerPerformanceWarning: the callbacks it invokes, in the
\* order of the Set; what a callback throws is caught and logged
triggerPerformanceWarning(callbacks) == callbacks

\* triggerPerformanceWarning when the sample is beyond its threshold
WarnIf(beyond) ==
  /\ performanceWarnings' = IF beyond THEN performanceWarnings + 1 ELSE performanceWarnings
  /\ warned' = IF beyond THEN triggerPerformanceWarning(warningCallbacks) ELSE <<>>

\* PhoenixPerformanceMonitor.startMonitoring: the shared collector is started,
\* the frame loops and the intervals are set up, checkMemory takes its first
\* sample at once
startMonitoring ==
  /\ ~isMonitoring
  /\ isMonitoring' = TRUE
  /\ collectorMonitoring' = TRUE
  /\ \E totalMemory \in MemoryTotals :
       /\ memoryUsageLog' = PushCapped(memoryUsageLog, totalMemory, 100)
       /\ WarnIf(totalMemory > thresholds.maxMemoryMB)
  /\ UNCHANGED <<thresholds, renderTime, animationFrames, optimizationHistory,
                 frameRates, performanceMonitor, currentQuality, warningCallbacks,
                 interactionLatency>>
  /\ UNCHANGED phoenixUnused

\* measureRenderTime -> recordRenderTime
recordRenderTime(time_ms) ==
  /\ isMonitoring
  /\ Len(renderTime) < MaxSamples
  /\ renderTime' = PushCapped(renderTime, time_ms, 100)
  /\ WarnIf(time_ms > thresholds.maxRenderTime)
  /\ UNCHANGED <<thresholds, isMonitoring, animationFrames, memoryUsageLog,
                 optimizationHistory, frameRates, collectorMonitoring,
                 performanceMonitor, currentQuality, warningCallbacks,
                 interactionLatency>>
  /\ UNCHANGED phoenixUnused

\* checkMemory, every two seconds -> recordMemoryUsage
recordMemoryUsage(totalMemory) ==
  /\ isMonitoring
  /\ Len(memoryUsageLog) < MaxSamples
  /\ memoryUsageLog' = PushCapped(memoryUsageLog, totalMemory, 100)
  /\ WarnIf(totalMemory > thresholds.maxMemoryMB)
  /\ UNCHANGED <<thresholds, isMonitoring, renderTime, animationFrames,
                 optimizationHistory, frameRates, collectorMonitoring,
                 performanceMonitor, currentQuality, warningCallbacks,
                 interactionLatency>>
  /\ UNCHANGED phoenixUnused

\* monitorAnimations of the monitor, once a second -> recordAnimationData
recordAnimationData(framesCounted) ==
  /\ animationFrames' = PushCapped(animationFrames, framesCounted, 60)
  /\ WarnIf(framesCounted < thresholds.minFPS)

\* measureFPS of the collector, once a second
measureFPS(framesCounted) ==
  frameRates' = PushCapped(frameRates, framesCounted, 60)

\* A second of animation frames has passed. The frame loop of the monitor and
\* the one of the collector run on the same frames, so each of the two that
\* is running records the same count.
SecondOfFrames(framesCounted) ==
  /\ isMonitoring \/ collectorMonitoring
  /\ Len(animationFrames) < MaxSamples
  /\ Len(frameRates) < MaxSamples
  /\ IF isMonitoring THEN recordAnimationData(framesCounted)
     ELSE UNCHANGED <<animationFrames, performanceWarnings, warned>>
  /\ IF collectorMonitoring THEN measureFPS(framesCounted)
     ELSE UNCHANGED frameRates
  /\ UNCHANGED <<thresholds, isMonitoring, renderTime, memoryUsageLog,
                 optimizationHistory, collectorMonitoring,
                 performanceMonitor, currentQuality, warningCallbacks,
                 interactionLatency>>
  /\ UNCHANGED phoenixUnused

\* the 10-second interval of startQualityMonitoring, with recordQualityDowngrade:
\* the event 'phoenixPerformanceDowngrade' is dispatched, nothing listens to it
QualityCheck ==
  /\ isMonitoring
  /\ LET currentPerformance == getCurrentPerformanceSnapshot
     IN IF shouldRecommendQualityDowngrade(currentPerformance)
        THEN /\ Len(optimizationHistory) < MaxDowngrades
             /\ optimizationHistory' = Append(optimizationHistory, currentPerformance)
        ELSE UNCHANGED optimizationHistory
  /\ UNCHANGED <<thresholds, isMonitoring, renderTime, animationFrames,
                 memoryUsageLog, performanceWarnings, frameRates,
                 collectorMonitoring, performanceMonitor, currentQuality>>
  /\ UNCHANGED warningVars
  /\ UNCHANGED phoenixUnused

\* the mount effect of OptimizedPhoenix: startPerformanceMonitoring()
PhoenixMount ==
  /\ ~performanceMonitor
  /\ performanceMonitor' = TRUE
  /\ collectorMonitoring' = TRUE
  /\ UNCHANGED <<thresholds, isMonitoring, renderTime, animationFrames,
                 memoryUsageLog, optimizationHistory, performanceWarnings,
                 frameRates, currentQuality>>
  /\ UNCHANGED warningVars
  /\ UNCHANGED phoenixUnused

\* the 3-second interval of the quality-adjustment effect of OptimizedPhoenix
checkPerformance ==
  /\ performanceMonitor
  /\ LET currentIndex == IndexOf(loaderQualityLevels, currentQuality)
     IN IF performanceMode = "auto" /\ averageFPS < 30
           /\ currentIndex < Len(loaderQualityLevels) - 1
        THEN currentQuality' = At(loaderQualityLevels, currentIndex + 1)
        ELSE UNCHANGED currentQuality
  /\ UNCHANGED <<thresholds, isMonitoring, renderTime, animationFrames,
                 memoryUsageLog, optimizationHistory, performanceWarnings,
                 frameRates, collectorMonitoring, performanceMonitor>>
  /\ UNCHANGED warningVars
  /\ UNCHANGED phoenixUnused

PhoenixInit ==
  /\ NoCleanupYet
  /\ lookup = NoLookup
  /\ NoDeadline
  /\ construction = NotConstructing
  /\ NoOptimizer
  /\ NoHistory
  /\ NoTimers
  /\ statsRead = NoStatsRead
  /\ \E d \in Devices : PhoenixConstructed(d) /\ webglSupported = d.supported
  /\ LoaderUnmounted
  /\ loadedModels = <<>>
  /\ inflight = <<>>
  /\ nLoads = 0
  /\ memoryUsage = 0
  /\ maxCacheSize = getMaxCacheSize(FALSE, 2048)
  /\ now = 0
  /\ deviceCapabilities = NotAssessed

PhoenixNext ==
  \/ startMonitoring
  \/ \E time_ms \in RenderTimes : recordRenderTime(time_ms)
  \/ \E totalMemory \in MemoryTotals : recordMemoryUsage(totalMemory)
  \/ \E framesCounted \in FrameCounts : SecondOfFrames(framesCounted)
  \/ QualityCheck
  \/ PhoenixMount
  \/ checkPerformance

SpecPhoenix == PhoenixInit /\ [][PhoenixNext]_vars

\* the callbacks a page hands to onPerformanceWarning: one that logs the
\* warning and one that throws
WarningCallbacks == {"logger", "thrower"}

\* interaction latencies (ms): a short and a long one
Latencies == {30, 250}

\* onPerformanceWarning: Set.add
onPerformanceWarning(callback) ==
  /\ \A i \in 1..Len(warningCallbacks) : warningCallbacks[i] # callback
  /\ warningCallbacks' = Append(warningCallbacks, callback)
  /\ UNCHANGED <<warned, interactionLatency>>
  /\ UNCHANGED phoenixVars
  /\ UNCHANGED phoenixUnused

\* the function onPerformanceWarning returned: Set.delete
removeWarningCallback(callback) ==
  /\ \E i \in 1..Len(warningCallbacks) : warningCallbacks[i] = callback
  /\ warningCallbacks' = SelectSeq(warningCallbacks, LAMBDA c : c # callback)
  /\ UNCHANGED <<warned, interactionLatency>>
  /\ UNCHANGED phoenixVars
  /\ UNCHANGED phoenixUnused

\* the listeners of startInteractionMonitoring -> recordInteractionLatency; the
\* listeners are added by startMonitoring and never removed
recordInteractionLatency(latency) ==
  /\ isMonitoring
  /\ Len(interactionLatency) < MaxSamples
  /\ interactionLatency' = PushCapped(interactionLatency, latency, 50)
  /\ WarnIf(latency > thresholds.maxInteractionLatency)
  /\ UNCHANGED <<thresholds, isMonitoring, renderTime, animationFrames, memoryUsageLog,
                 optimizationHistory, frameRates, collectorMonitoring,
                 performanceMonitor, currentQuality, warningCallbacks>>
  /\ UNCHANGED phoenixUnused

\* the samples recorded so far
SamplesRecorded ==
  Len(renderTime) + Len(animationFrames) + Len(memoryUsageLog) + Len(interactionLatency)

\* the monitor with pages that register warning callbacks
WarningNext ==
  \/ \E callback \in WarningCallbacks : onPerformanceWarning(callback)
  \/ \E callback \in WarningCallbacks : removeWarningCallback(callback)
  \/ startMonitoring
  \/ /\ SamplesRecorded < MaxWarningSamples
     /\ \/ \E time_ms \in RenderTimes : recordRenderTime(time_ms)
        \/ \E totalMemory \in MemoryTotals : recordMemoryUsage(totalMemory)
        \/ \E framesCounted \in FrameCounts : SecondOfFrames(framesCounted)
        \/ \E latency \in Latencies : recordInteractionLatency(latency)
  \/ QualityCheck

SpecWarning == PhoenixInit /\ [][WarningNext]_vars

(***************************************************************************)
(* Properties of the monitor and of OptimizedPhoenix                       *)
(***************************************************************************)
\* the indicators of a snapshot that are beyond their threshold
Breaches(snapshot) ==
  (IF RenderTimeAbove(snapshot, thresholds.maxRenderTime, 1, 1) THEN 1 ELSE 0)
  + (IF FPSBelow(snapshot, thresholds.minFPS, 1, 1) THEN 1 ELSE 0)
  + (IF MemoryAbove(snapshot, thresholds.maxMemoryMB, 1, 1) THEN 1 ELSE 0)

\* C7: the monitor dispatches its downgrade event only at a quality check whose
\* snapshot has at least two of the three indicators (average render time,
\* average FPS, total memory) beyond their thresholds; with exactly one
\* indicator beyond its threshold nothing is dispatched.
C7_DowngradeNeedsTwoIndicators ==
  [][optimizationHistory' # optimizationHistory
     => /\ Breaches(getCurrentPerformanceSnapshot) >= 2
        /\ optimizationHistory' = Append(optimizationHistory, getCurrentPerformanceSnapshot)]_vars

\* C7 (case reached): an event was dispatched on a snapshot with exactly two
\* indicators beyond their thresholds, the average FPS being the one within.
C7_DispatchedOnTwo ==
  /\ optimizationHistory # <<>>
  /\ Breaches(optimizationHistory[1]) = 2
  /\ ~FPSBelow(optimizationHistory[1], thresholds.minFPS, 1, 1)

\* C8: the tier of OptimizedPhoenix is lowered only when the monitor has
\* dispatched a downgrade event or at least two indicators of its current
\* snapshot are beyond their thresholds.
C8_LoweredOnlyOnSignal ==
  [][Rank(currentQuality') < Rank(currentQuality)
     => \/ optimizationHistory # <<>>
        \/ Breaches(getCurrentPerformanceSnapshot) >= 2]_vars

\* C8 (case reached): the monitor runs and holds samples of all three
\* indicators, of which only the average FPS is beyond its threshold, and the
\* collector's average FPS is below 30.
C8_OnlyFPSLow ==
  /\ isMonitoring
  /\ performanceMonitor
  /\ renderTime # <<>>
  /\ animationFrames # <<>>
  /\ Breaches(getCurrentPerformanceSnapshot) = 1
  /\ FPSBelow(getCurrentPerformanceSnapshot, thresholds.minFPS, 1, 1)
  /\ frameRates # <<>>
  /\ averageFPS < 30
  /\ Rank(currentQuality) > 1

\* C19: the places that hold a tier designate the same one: the thresholds of
\* the monitor are those of the tier OptimizedPhoenix currently renders.
C19_OneCurrentTier == thresholds = calculateThresholds(currentQuality)

\* C19 (case reached): the monitor was constructed for 'high' and
\* OptimizedPhoenix has stepped down to 'medium'.
C19_PhoenixSteppedDown ==
  /\ performanceMonitor
  /\ frameRates # <<>>
  /\ averageFPS < 30
  /\ thresholds = calculateThresholds("high")
  /\ currentQuality = "medium"

\* C35: a 3-second check of OptimizedPhoenix lowers the tier only when the
\* collector holds at least one FPS sample and their average is below 30.
C35_NoDowngradeWithoutData ==
  [][(currentQuality' # currentQuality /\ checkPerformance)
     => (Len(frameRates) > 0 /\ averageFPS < 30)]_vars

\* C35 (case reached): OptimizedPhoenix is mounted, the collector has not
\* recorded any FPS sample, and the tier has gone from 'high' to 'medium'.
C35_LoweredWithoutSample ==
  /\ performanceMonitor
  /\ frameRates = <<>>
  /\ thresholds = calculateThresholds("high")
  /\ currentQuality = "medium"

\* the limits of the tier that is current
currentLimits == calculateThresholds(currentQuality)

\* C20: every comparison of the monitor is made against the limits of the
\* current tier: a sample raises a warning exactly when it is beyond them, and
\* a downgrade event is dispatched only when two issues are counted with them.
C20_LimitsOfCurrentTier ==
  [][/\ renderTime' # renderTime =>
          (performanceWarnings' > performanceWarnings
             <=> renderTime'[Len(renderTime')] > currentLimits.maxRenderTime)
     /\ memoryUsageLog' # memoryUsageLog =>
          (performanceWarnings' > performanceWarnings
             <=> memoryUsageLog'[Len(memoryUsageLog')] > currentLimits.maxMemoryMB)
     /\ animationFrames' # animationFrames =>
          (performanceWarnings' > performanceWarnings
             <=> animationFrames'[Len(animationFrames')] < currentLimits.minFPS)
     /\ optimizationHistory' # optimizationHistory =>
          IssuesAgainst(getCurrentPerformanceSnapshot, currentLimits) >= 2]_vars

\* C20 (case reached): the monitor was constructed for 'medium', the tier has
\* gone down to 'low', and the monitor holds a memory sample between the two
\* limits without having raised a warning.
C20_SampleBetweenLimits ==
  /\ isMonitoring
  /\ thresholds = calculateThresholds("medium")
  /\ currentQuality = "low"
  /\ memoryUsageLog # <<>>
  /\ memoryUsageLog[Len(memoryUsageLog)] > currentLimits.maxMemoryMB
  /\ memoryUsageLog[Len(memoryUsageLog)] <= thresholds.maxMemoryMB
  /\ performanceWarnings = 0

\* a sample was recorded by this step and is beyond its threshold
BreachingSample ==
  \/ /\ Len(renderTime') > Len(renderTime)
     /\ renderTime'[Len(renderTime')] > thresholds.maxRenderTime
  \/ /\ Len(animationFrames') > Len(animationFrames)
     /\ animationFrames'[Len(animationFrames')] < thresholds.minFPS
  \/ /\ Len(interactionLatency') > Len(interactionLatency)
     /\ interactionLatency'[Len(interactionLatency')] > thresholds.maxInteractionLatency
  \/ /\ Len(memoryUsageLog') > Len(memoryUsageLog)
     /\ memoryUsageLog'[Len(memoryUsageLog')] > thresholds.maxMemoryMB

\* C25: a recorded sample that is beyond its threshold invokes every
\* registered warning callback exactly once, also after a callback that throws
\* and whatever the downgrade decision on the snapshot is.
C25_WarningPerBreach ==
  [][BreachingSample =>
       \A i \in 1..Len(warningCallbacks) :
          Cardinality({k \in 1..Len(warned') : warned'[k] = warningCallbacks[i]}) = 1]_vars

\* C25 (case reached): a sample beyond its threshold was recorded with the
\* throwing callback registered before the logging one, both were invoked, and
\* the snapshot does not make the downgrade decision.
C25_WarnedAfterThrower ==
  /\ warningCallbacks = <<"thrower", "logger">>
  /\ warned = <<"thrower", "logger">>
  /\ performanceWarnings > 0
  /\ ~shouldRecommendQualityDowngrade(getCurrentPerformanceSnapshot)

(***************************************************************************)
(* The monitors started and stopped: the timers, loops and listeners that  *)
(* PhoenixPerformanceMonitor.startMonitoring sets up, the measureFPS loops *)
(* of the shared collector, and the OptimizedPhoenix instances and the     *)
(* Phoenix monitor as consumers of the collector. Every sample is a slow   *)
(* one: a 70 ms frame, 300 MB of memory, 15 frames in a second, a 250 ms   *)
(* interaction.                                                            *)
(***************************************************************************)
monitoringUnused == <<cacheVars, loaderVars, assessVars, evictionVars, lookupVars,
                     deadlineVars, statsVars,
                     historyVars,
                     animationVars,
                     constructionVars>>

\* the OptimizedPhoenix instances of a page
Instances == {"phoenix1", "phoenix2"}

SlowFrame == 70
HighMemory == 300
SlowSecond == 15
SlowInteraction == 250

\* PerformanceMetrics.startMonitoring: nothing when already monitoring,
\* otherwise a new measureFPS loop with an empty fpsHistory
collectorStartMonitoring ==
  /\ collectorMonitoring' = TRUE
  /\ collectorLoops' = IF collectorMonitoring THEN collectorLoops
                       ELSE Append(collectorLoops, <<>>)

\* PhoenixPerformanceMonitor.startMonitoring with what it sets up
startMonitoringTimers ==
  /\ ~isMonitoring
  /\ analysisTimers < MaxStarts
  /\ isMonitoring' = TRUE
  /\ collectorStartMonitoring
  /\ consumers' = consumers \cup {"monitor"}
  /\ frameSamplers' = frameSamplers + 1
  /\ interactionListeners' = interactionListeners + 1
  /\ memorySamplers' = memorySamplers + 1
  /\ memoryUsageLog' = PushCapped(memoryUsageLog, HighMemory, 100)
  /\ WarnIf(HighMemory > thresholds.maxMemoryMB)
  /\ qualityTimers' = qualityTimers + 1
  /\ analysisTimers' = analysisTimers + 1
  /\ UNCHANGED <<thresholds, renderTime, animationFrames, optimizationHistory,
                 frameRates, performanceMonitor, currentQuality, warningCallbacks,
                 interactionLatency>>
  /\ UNCHANGED monitoringUnused

\* PhoenixPerformanceMonitor.stopMonitoring
stopMonitoring ==
  /\ isMonitoring
  /\ isMonitoring' = FALSE
  /\ collectorMonitoring' = FALSE
  /\ consumers' = consumers \ {"monitor"}
  /\ UNCHANGED <<thresholds, renderTime, animationFrames, memoryUsageLog,
                 optimizationHistory, performanceWarnings, frameRates,
                 performanceMonitor, currentQuality>>
  /\ UNCHANGED warningVars
  /\ UNCHANGED <<analysisTimers, qualityTimers, frameSamplers, memorySamplers,
                 interactionListeners, collectorLoops>>
  /\ UNCHANGED monitoringUnused

\* the mount effect of the OptimizedPhoenix instance c: startPerformanceMonitoring()
mountInstance(c) ==
  /\ c \notin consumers
  /\ Len(collectorLoops) < MaxStarts
  /\ collectorStartMonitoring
  /\ consumers' = consumers \cup {c}
  /\ UNCHANGED <<thresholds, isMonitoring, renderTime, animationFrames, memoryUsageLog,
                 optimizationHistory, performanceWarnings, frameRates,
                 performanceMonitor, currentQuality>>
  /\ UNCHANGED warningVars
  /\ UNCHANGED <<analysisTimers, qualityTimers, frameSamplers, memorySamplers,
                 interactionListeners>>
  /\ UNCHANGED monitoringUnused

\* the cleanup of that effect when instance c unmounts: monitor.stopMonitoring()
unmountInstance(c) ==
  /\ c \in consumers
  /\ collectorMonitoring' = FALSE
  /\ consumers' = consumers \ {c}
  /\ UNCHANGED <<thresholds, isMonitoring, renderTime, animationFrames, memoryUsageLog,
                 optimizationHistory, performanceWarnings, frameRates,
                 performanceMonitor, currentQuality>>
  /\ UNCHANGED warningVars
  /\ UNCHANGED <<analysisTimers, qualityTimers, frameSamplers, memorySamplers,
                 interactionListeners, collectorLoops>>
  /\ UNCHANGED monitoringUnused

\* the frame a measureRenderTime loop has requested: the callback records the
\* render time, then measureRenderTime requests the next frame if the monitor
\* is monitoring
renderFrame ==
  /\ frameSamplers > 0
  /\ isMonitoring => SamplesRecorded < MaxWarningSamples
  /\ renderTime' = PushCapped(renderTime, SlowFrame, 100)
  /\ WarnIf(SlowFrame > thresholds.maxRenderTime)
  /\ frameSamplers' = IF isMonitoring THEN frameSamplers ELSE frameSamplers - 1
  /\ UNCHANGED <<thresholds, isMonitoring, animationFrames, memoryUsageLog,
                 optimizationHistory, frameRates, collectorMonitoring,
                 performanceMonitor, currentQuality, warningCallbacks,
                 interactionLatency>>
  /\ UNCHANGED <<analysisTimers, qualityTimers, memorySamplers,
                 interactionListeners, collectorLoops, consumers>>
  /\ UNCHANGED monitoringUnused

\* the timeout a checkMemory chain of the Phoenix monitor has set: nothing
\* when the monitor is not monitoring, otherwise a sample and the next timeout
checkMemoryTimeout ==
  /\ memorySamplers > 0
  /\ isMonitoring => SamplesRecorded < MaxWarningSamples
  /\ IF isMonitoring
     THEN /\ memoryUsageLog' = PushCapped(memoryUsageLog, HighMemory, 100)
          /\ WarnIf(HighMemory > thresholds.maxMemoryMB)
          /\ UNCHANGED memorySamplers
     ELSE /\ memorySamplers' = memorySamplers - 1
          /\ UNCHANGED <<memoryUsageLog, performanceWarnings, warned>>
  /\ UNCHANGED <<thresholds, isMonitoring, renderTime, animationFrames,
                 optimizationHistory, frameRates, collectorMonitoring,
                 performanceMonitor, currentQuality, warningCallbacks,
                 interactionLatency>>
  /\ UNCHANGED <<analysisTimers, qualityTimers, frameSamplers,
                 interactionListeners, collectorLoops, consumers>>
  /\ UNCHANGED monitoringUnused

\* the frame the measureFPS loop i of the collector has requested. When the
\* second is full the loop pushes the count to its own fpsHistory and stores a
\* copy in metrics.frameRates; then it requests the next frame if the
\* collector is monitoring.
measureFPSFrame(i, secondFull) ==
  /\ i \in 1..Len(collectorLoops)
  /\ collectorMonitoring => (secondFull /\ Len(collectorLoops[i]) < MaxSamples)
  /\ LET fpsHistory == IF secondFull THEN PushCapped(collectorLoops[i], SlowSecond, 60)
                       ELSE collectorLoops[i]
     IN /\ frameRates' = IF secondFull THEN fpsHistory ELSE frameRates
        /\ collectorLoops' = IF collectorMonitoring
                             THEN [collectorLoops EXCEPT ![i] = fpsHistory]
                             ELSE RemoveAt(collectorLoops, i)
  /\ UNCHANGED <<thresholds, isMonitoring, renderTime, animationFrames, memoryUsageLog,
                 optimizationHistory, performanceWarnings, collectorMonitoring,
                 performanceMonitor, currentQuality>>
  /\ UNCHANGED warningVars
  /\ UNCHANGED <<analysisTimers, qualityTimers, frameSamplers, memorySamplers,
                 interactionListeners, consumers>>
  /\ UNCHANGED monitoringUnused

\* a 10-second interval of startQualityMonitoring fires
qualityInterval ==
  /\ qualityTimers > 0
  /\ LET currentPerformance == getCurrentPerformanceSnapshot
     IN /\ shouldRecommendQualityDowngrade(currentPerformance)
        /\ Len(optimizationHistory) < MaxDowngrades
        /\ optimizationHistory' = Append(optimizationHistory, currentPerformance)
  /\ UNCHANGED <<thresholds, isMonitoring, renderTime, animationFrames,
                 memoryUsageLog, performanceWarnings, frameRates,
                 collectorMonitoring, performanceMonitor, currentQuality>>
  /\ UNCHANGED warningVars
  /\ UNCHANGED monitoringVars
  /\ UNCHANGED monitoringUnused

\* a mouseup, touchend or scroll listener of startInteractionMonitoring runs
\* after its mousedown, touchstart or scroll listener
interactionEnd ==
  /\ interactionListeners > 0
  /\ SamplesRecorded < MaxWarningSamples
  /\ interactionLatency' = PushCapped(interactionLatency, SlowInteraction, 50)
  /\ WarnIf(SlowInteraction > thresholds.maxInteractionLatency)
  /\ UNCHANGED <<thresholds, isMonitoring, renderTime, animationFrames, memoryUsageLog,
                 optimizationHistory, frameRates, collectorMonitoring,
                 performanceMonitor, currentQuality, warningCallbacks>>
  /\ UNCHANGED monitoringVars
  /\ UNCHANGED monitoringUnused

MonitoringNext ==
  \/ startMonitoringTimers
  \/ stopMonitoring
  \/ \E c \in Instances : mountInstance(c)
  \/ \E c \in Instances : unmountInstance(c)
  \/ renderFrame
  \/ checkMemoryTimeout
  \/ \E i \in 1..Len(collectorLoops), secondFull \in BOOLEAN : measureFPSFrame(i, secondFull)
  \/ qualityInterval
  \/ interactionEnd

\* the monitors as constructed on a desktop device
MonitoringInit ==
  /\ PhoenixInit
  /\ currentQuality = recommendedQualityOf(DesktopDevice)
  /\ webglSupported

SpecMonitoring == MonitoringInit /\ [][MonitoringNext]_vars

\* at most one timer, loop and chain of each kind
OneOfEachKind ==
  /\ analysisTimers <= 1
  /\ qualityTimers <= 1
  /\ frameSamplers <= 1
  /\ memorySamplers <= 1

\* a step taken while the monitor is not monitoring records no sample and
\* emits no warning and no downgrade event
SilentWhileStopped ==
  (~isMonitoring /\ ~isMonitoring')
    => UNCHANGED <<renderTime, animationFrames, memoryUsageLog, interactionLatency,
                   optimizationHistory, performanceWarnings>>

\* C32: whatever the sequence of startMonitoring and stopMonitoring calls, at
\* most one quality interval, one analysis interval and one sampler of each
\* kind is active, and while isMonitoring is false no sample is recorded and
\* no warning or 'phoenixPerformanceDowngrade' event is emitted.
C32_TimersFollowStartStop == []OneOfEachKind /\ [][SilentWhileStopped]_vars

\* C32 (case reached): the monitor has been started twice and stopped twice;
\* both quality intervals and both analysis intervals are still installed and
\* a downgrade has been recorded.
C32_TimersLeftAfterStop ==
  /\ ~isMonitoring
  /\ qualityTimers = 2
  /\ analysisTimers = 2
  /\ optimizationHistory # <<>>

\* C34: the collector is monitoring as long as a consumer that has started it
\* has not stopped it.
C34_CollectorAliveWhileInUse == consumers # {} => collectorMonitoring

\* C34 (case reached): one OptimizedPhoenix instance has unmounted, the other
\* one and the Phoenix monitor are still consumers, and the last measureFPS
\* loop of the collector has ended.
C34_SamplingEndedUnderConsumers ==
  /\ "monitor" \in consumers
  /\ isMonitoring
  /\ Cardinality(consumers \cap Instances) = 1
  /\ ~collectorMonitoring
  /\ collectorLoops = <<>>

(***************************************************************************)
(* The sample histories of the monitors over a long session. The samplers  *)
(* are independent of each other, so they are let run one after the other, *)
(* each until its history has dropped a sample. The k-th sample of every   *)
(* sampler has the value k, so that a history shows which samples it holds.*)
(***************************************************************************)
historyUnused == <<cacheVars, loaderVars, assessVars, evictionVars, lookupVars,
                  deadlineVars, statsVars, monitoringVars,
                  animationVars,
                  constructionVars>>

\* the state outside the animation optimizer and its PerformanceMonitor
animationUnused == <<cacheVars, loaderVars, phoenixVars, assessVars, warningVars,
                    evictionVars, lookupVars, deadlineVars, statsVars,
                    monitoringVars,
                    constructionVars>>

FirstSample == 1

\* the value of the sample that follows those of history
nextSample(history) ==
  IF history = <<>> THEN FirstSample ELSE history[Len(history)] + 1

\* history has dropped its first sample
Overflowed(history) == history # <<>> /\ history[1] # FirstSample

\* PhoenixPerformanceMonitor.startMonitoring with the collector: checkMemory
\* of the monitor, checkMemory and updateNetworkInfo of the collector take
\* their first sample at once
startMonitoringHistories ==
  /\ ~isMonitoring
  /\ isMonitoring' = TRUE
  /\ collectorMonitoring' = TRUE
  /\ memoryUsageLog' = PushCapped(memoryUsageLog, nextSample(memoryUsageLog), 100)
  /\ WarnIf(nextSample(memoryUsageLog) > thresholds.maxMemoryMB)
  /\ collectorMemoryUsage' =
       PushCapped(collectorMemoryUsage, nextSample(collectorMemoryUsage), 300)
  /\ networkStats' = PushCapped(networkStats, nextSample(networkStats), 100)
  /\ UNCHANGED <<thresholds, renderTime, animationFrames, optimizationHistory,
                 frameRates, performanceMonitor, currentQuality, warningCallbacks,
                 interactionLatency, frames>>
  /\ UNCHANGED historyUnused

\* checkMemory of the monitor -> recordMemoryUsage
nextMemoryUsage ==
  /\ isMonitoring
  /\ memoryUsageLog' = PushCapped(memoryUsageLog, nextSample(memoryUsageLog), 100)
  /\ WarnIf(nextSample(memoryUsageLog) > thresholds.maxMemoryMB)
  /\ UNCHANGED <<thresholds, isMonitoring, renderTime, animationFrames,
                 optimizationHistory, frameRates, collectorMonitoring,
                 performanceMonitor, currentQuality, warningCallbacks,
                 interactionLatency>>
  /\ UNCHANGED historyVars
  /\ UNCHANGED historyUnused

\* checkMemory of the collector, once a second
nextCollectorMemory ==
  /\ collectorMonitoring
  /\ collectorMemoryUsage' =
       PushCapped(collectorMemoryUsage, nextSample(collectorMemoryUsage), 300)
  /\ UNCHANGED <<networkStats, frames>>
  /\ UNCHANGED phoenixVars
  /\ UNCHANGED warningVars
  /\ UNCHANGED historyUnused

\* updateNetworkInfo of the collector, at every 'change' of the connection
updateNetworkInfo ==
  /\ networkStats # <<>>
  /\ networkStats' = PushCapped(networkStats, nextSample(networkStats), 100)
  /\ UNCHANGED <<collectorMemoryUsage, frames>>
  /\ UNCHANGED phoenixVars
  /\ UNCHANGED warningVars
  /\ UNCHANGED historyUnused

\* measureRenderTime -> recordRenderTime
nextRenderTime ==
  /\ isMonitoring
  /\ renderTime' = PushCapped(renderTime, nextSample(renderTime), 100)
  /\ WarnIf(nextSample(renderTime) > thresholds.maxRenderTime)
  /\ UNCHANGED <<thresholds, isMonitoring, animationFrames, memoryUsageLog,
                 optimizationHistory, frameRates, collectorMonitoring,
                 performanceMonitor, currentQuality, warningCallbacks,
                 interactionLatency>>
  /\ UNCHANGED historyVars
  /\ UNCHANGED historyUnused

\* monitorAnimations -> recordAnimationData
nextAnimationData ==
  /\ isMonitoring
  /\ recordAnimationData(nextSample(animationFrames))
  /\ UNCHANGED <<thresholds, isMonitoring, renderTime, memoryUsageLog,
                 optimizationHistory, frameRates, collectorMonitoring,
                 performanceMonitor, currentQuality, warningCallbacks,
                 interactionLatency>>
  /\ UNCHANGED historyVars
  /\ UNCHANGED historyUnused

\* an interaction listener -> recordInteractionLatency
nextInteractionLatency ==
  /\ isMonitoring
  /\ interactionLatency' =
       PushCapped(interactionLatency, nextSample(interactionLatency), 50)
  /\ WarnIf(nextSample(interactionLatency) > thresholds.maxInteractionLatency)
  /\ UNCHANGED <<thresholds, isMonitoring, renderTime, animationFrames, memoryUsageLog,
                 optimizationHistory, frameRates, collectorMonitoring,
                 performanceMonitor, currentQuality, warningCallbacks>>
  /\ UNCHANGED historyVars
  /\ UNCHANGED historyUnused

\* measureFPS of the collector, once a second
nextFrameRate ==
  /\ collectorMonitoring
  /\ measureFPS(nextSample(frameRates))
  /\ UNCHANGED <<thresholds, isMonitoring, renderTime, animationFrames, memoryUsageLog,
                 optimizationHistory, performanceWarnings, collectorMonitoring,
                 performanceMonitor, currentQuality>>
  /\ UNCHANGED warningVars
  /\ UNCHANGED historyVars
  /\ UNCHANGED historyUnused

\* PerformanceMonitor.recordFrame
recordFrame(deltaTime) ==
  /\ frames' = PushCapped(frames, deltaTime, 60)
  /\ droppedFrames' = IF deltaTime > 33 THEN droppedFrames + 1 ELSE droppedFrames

\* an animation of the optimizer runs a frame -> recordFrame
nextFrame ==
  /\ recordFrame(nextSample(frames))
  /\ UNCHANGED <<collectorMemoryUsage, networkStats, animationQuality, animationStats>>
  /\ UNCHANGED animationUnused

\* the 10-second interval of startQualityMonitoring finds the performance
\* degraded -> recordQualityDowngrade
nextQualityDowngrade ==
  /\ isMonitoring
  /\ Len(optimizationHistory) < MaxEvents
  /\ LET currentPerformance == getCurrentPerformanceSnapshot
     IN /\ shouldRecommendQualityDowngrade(currentPerformance)
        /\ optimizationHistory' = Append(optimizationHistory, currentPerformance)
  /\ UNCHANGED <<thresholds, isMonitoring, renderTime, animationFrames,
                 memoryUsageLog, performanceWarnings, frameRates,
                 collectorMonitoring, performanceMonitor, currentQuality>>
  /\ UNCHANGED warningVars
  /\ UNCHANGED historyVars
  /\ UNCHANGED historyUnused

\* which samplers have run until their history dropped a sample, in the order
\* in which they are let run
SamplersDone ==
  <<Overflowed(memoryUsageLog), Overflowed(collectorMemoryUsage),
    Overflowed(networkStats), Overflowed(renderTime), Overflowed(animationFrames),
    Overflowed(interactionLatency), Overflowed(frameRates), Overflowed(frames)>>

\* it is the turn of the k-th sampler
Turn(k) ==
  /\ \A j \in 1..(k - 1) : SamplersDone[j]
  /\ k <= Len(SamplersDone) => ~SamplersDone[k]

HistoryNext ==
  \/ startMonitoringHistories
  \/ Turn(1) /\ nextMemoryUsage
  \/ Turn(2) /\ nextCollectorMemory
  \/ Turn(3) /\ updateNetworkInfo
  \/ Turn(4) /\ nextRenderTime
  \/ Turn(5) /\ nextAnimationData
  \/ Turn(6) /\ nextInteractionLatency
  \/ Turn(7) /\ nextFrameRate
  \/ Turn(8) /\ nextFrame
  \/ Turn(9) /\ nextQualityDowngrade

SpecHistory == PhoenixInit /\ [][HistoryNext]_vars

\* the samples of history are consecutive ones: none but the oldest has been
\* dropped
OldestDropped(history) ==
  \A i \in 1..(Len(history) - 1) : history[i + 1] = history[i] + 1

LargestCap == 300

\* C31: every sample history stays within its cap and drops its oldest
\* sample first, and no other list of the monitors that gets an entry per
\* event holds more entries than the largest of the caps.
C31_HistoriesBounded ==
  /\ Len(renderTime) <= 100 /\ OldestDropped(renderTime)
  /\ Len(animationFrames) <= 60 /\ OldestDropped(animationFrames)
  /\ Len(interactionLatency) <= 50 /\ OldestDropped(interactionLatency)
  /\ Len(memoryUsageLog) <= 100 /\ OldestDropped(memoryUsageLog)
  /\ Len(frameRates) <= 60 /\ OldestDropped(frameRates)
  /\ Len(collectorMemoryUsage) <= 300 /\ OldestDropped(collectorMemoryUsage)
  /\ Len(networkStats) <= 100 /\ OldestDropped(networkStats)
  /\ Len(frames) <= 60 /\ OldestDropped(frames)
  /\ Len(optimizationHistory) <= LargestCap

\* C31 (case reached): every sample history is full and has dropped a sample,
\* and optimizationHistory holds more downgrade events than any cap.
C31_DowngradeEventsPileUp ==
  /\ \A k \in 1..Len(SamplersDone) : SamplersDone[k]
  /\ Len(renderTime) = 100
  /\ Len(collectorMemoryUsage) = 300
  /\ Len(frames) = 60
  /\ Len(optimizationHistory) > LargestCap

(***************************************************************************)
(* AnimationOptimizer with its PerformanceMonitor: the frames its          *)
(* animations record and the 2-second check of startPerformanceMonitoring  *)
(***************************************************************************)
\* deltaTime of a frame (ms): a frame at 60 fps and one at 10 fps
Deltas == {16, 100}

\* ANIMATION_PRESETS[quality].frameRate, with the fallback of the constructor
presetFrameRate(quality) ==
  CASE quality = "high" -> 60
    [] quality = "medium" -> 45
    [] quality = "low" -> 30
    [] quality = "ultra-low" -> 30
    [] OTHER -> 30

\* PerformanceMonitor.getStats
getStats ==
  IF Len(frames) = 0 THEN [fps |-> 60, droppedFrames |-> 0, sampleCount |-> 0]
  ELSE LET rounded == (2 * 1000 * Len(frames) + SumOf(frames)) \div (2 * SumOf(frames))
       IN [fps |-> Min(rounded, 60), droppedFrames |-> droppedFrames,
           sampleCount |-> Len(frames)]

\* getAnimationOptimizer() creates the optimizer on a device d
newAnimationOptimizer(d) ==
  /\ animationQuality = "null"
  /\ animationQuality' = recommendedQualityOf(d)
  /\ UNCHANGED <<droppedFrames, animationStats, frames, collectorMemoryUsage,
                 networkStats>>
  /\ UNCHANGED animationUnused

\* an animation of the optimizer runs a frame: PerformanceMonitor.recordFrame
animationUpdate(deltaTime) ==
  /\ animationQuality # "null"
  /\ droppedFrames < MaxFrames
  /\ deltaTime <= 33 => Len(frames) < MaxSamples
  /\ recordFrame(deltaTime)
  /\ UNCHANGED <<animationQuality, animationStats, collectorMemoryUsage, networkStats>>
  /\ UNCHANGED animationUnused

\* handlePoorPerformance: the quality after it
handlePoorPerformance ==
  LET currentIndex == IndexOf(loaderQualityLevels, animationQuality)
  IN IF currentIndex < Len(loaderQualityLevels) - 1
     THEN At(loaderQualityLevels, currentIndex + 1)
     ELSE animationQuality

\* the sample count the check asks for
enoughSamples(stats) == stats.sampleCount > 60

\* the 2-second interval of startPerformanceMonitoring
optimizerCheck ==
  /\ animationQuality # "null"
  /\ LET stats == getStats
     IN /\ animationStats' = [averageFPS |-> stats.fps,
                              droppedFrames |-> stats.droppedFrames]
        /\ animationQuality' =
             IF stats.fps * 10 < presetFrameRate(animationQuality) * 6
                /\ enoughSamples(stats)
             THEN handlePoorPerformance
             ELSE animationQuality
  /\ UNCHANGED <<droppedFrames, frames, collectorMemoryUsage, networkStats>>
  /\ UNCHANGED animationUnused

AnimationNext ==
  \/ \E d \in Devices : newAnimationOptimizer(d)
  \/ \E deltaTime \in Deltas : animationUpdate(deltaTime)
  \/ optimizerCheck

SpecAnimation == CacheInit /\ [][AnimationNext]_vars

\* the window of recorded frames is full and its FPS is below 60% of the
\* frame rate of the current preset
PoorFullWindow ==
  /\ Len(frames) = 60
  /\ getStats.fps * 10 < presetFrameRate(animationQuality) * 6

\* C38: a 2-second check that finds a full window of frames with an FPS below
\* 60% of the preset's frame rate lowers the animation quality by one level,
\* unless it is 'ultra-low' already.
C38_PoorWindowDowngrades ==
  [][(PoorFullWindow /\ animationQuality \in {"high", "medium", "low"}
      /\ optimizerCheck)
     => Rank(animationQuality') = Rank(animationQuality) - 1]_vars

\* C38 (case reached): the optimizer was created for 'high'; the window holds
\* 60 frames of 100 ms, the check has read an FPS of 10 after at least 60
\* dropped frames, and the quality is still 'high'.
C38_CheckedAndStillHigh ==
  /\ animationQuality = "high"
  /\ PoorFullWindow
  /\ animationStats.averageFPS = 10
  /\ animationStats.droppedFrames >= 60

(***************************************************************************)
(* The constructor of ModelMemoryManager up to getCompressionSettings. A   *)
(* call whose quality has no entry in the table calls itself before it     *)
(* indexes the result; the engine throws a RangeError when the stack holds *)
(* MaxStack frames.                                                        *)
(***************************************************************************)
constructionUnused == <<cacheVars, loaderVars, phoenixVars, assessVars, warningVars,
                       evictionVars, lookupVars, deadlineVars, statsVars,
                       monitoringVars, historyVars, animationVars>>

\* the keys of the table of getCompressionSettings
compressionQualities == {"ultra-low", "low", "medium", "high"}

\* new ModelMemoryManager() on device d: assessDeviceCapabilities(), then
\* getMaxCacheSize(), then the call of getCompressionSettings()
newModelMemoryManager(d) ==
  /\ construction = NotConstructing
  /\ construction' = [quality |-> recommendedQualityOf(d), depth |-> 1,
                      outcome |-> "pending"]
  /\ UNCHANGED constructionUnused

\* the innermost getCompressionSettings frame runs: it returns the entry of
\* the quality, or calls this.getCompressionSettings() for the 'low' entry
getCompressionSettings ==
  /\ construction.outcome = "pending"
  /\ LET quality == construction.quality
     IN construction' =
          IF quality \in compressionQualities
          THEN [construction EXCEPT !.depth = 0,
                  !.outcome = IF construction.depth > 1 THEN "low" ELSE quality]
          ELSE IF construction.depth < MaxStack
          THEN [construction EXCEPT !.depth = construction.depth + 1]
          ELSE [construction EXCEPT !.depth = 0, !.outcome = "RangeError"]
  /\ UNCHANGED constructionUnused

ConstructionNext ==
  \/ \E d \in Devices : newModelMemoryManager(d)
  \/ getCompressionSettings

SpecConstruction == CacheInit /\ [][ConstructionNext]_vars

\* C39: the constructor never ends in a stack overflow: getCompressionSettings
\* returns the entry of the assessed quality, and the 'low' entry when the
\* quality has none.
C39_ConstructionReturns ==
  /\ construction.outcome # "RangeError"
  /\ construction.outcome \in compressionQualities
       => construction.outcome =
            IF construction.quality \in compressionQualities
            THEN construction.quality ELSE "low"

\* C39 (case reached): the manager was constructed on a device without WebGL,
\* assessed 'none', and the constructor has thrown a RangeError.
C39_StackOverflowOnNone ==
  /\ construction.quality = "none"
  /\ construction.outcome = "RangeError"

(***************************************************************************)
(* deviceDetection: assessDeviceCapabilities as its callers use it         *)
(***************************************************************************)
assessUnused == <<cacheVars, loaderVars, phoenixVars, warningVars, evictionVars,
                 deadlineVars,
                 statsVars,
                 monitoringVars,
                 historyVars,
                 animationVars,
                 constructionVars>>

\* PHOENIX_MODEL_PATHS[quality] || PHOENIX_MODEL_PATHS.low, with the tier of
\* the assessment for 'auto'
getPhoenixModelPath(quality, recommendedQuality) ==
  LET key == IF quality = "auto" THEN recommendedQuality ELSE quality
  IN IF key \in {"ultra-low", "low", "medium", "high"}
     THEN AssetPath("phoenix", key)
     ELSE AssetPath("phoenix", "low")

\* animationSettings with the frame skip of 'low' below that of 'medium'
animationSettings_LowSkipsNone(complexity) ==
  LET settings == [q \in {"ultra-low", "low", "medium", "high"} |->
        [frameSkip |-> CASE q = "ultra-low" -> 3 [] q = "low" -> 0
                         [] q = "medium" -> 1 [] q = "high" -> 0]]
  IN IF complexity \in DOMAIN settings THEN settings[complexity] ELSE settings["low"]

\* animationSettings of OptimizedPhoenix: settings[complexity] || settings.low;
\* of the settings the frame skip
animationSettings(complexity) ==
  LET settings == [q \in {"ultra-low", "low", "medium", "high"} |->
        [frameSkip |-> CASE q = "ultra-low" -> 3 [] q = "low" -> 2
                         [] q = "medium" -> 1 [] q = "high" -> 0]]
  IN IF complexity \in DOMAIN settings THEN settings[complexity] ELSE settings["low"]

\* the tiers and asset groups a caller may pass: the four tiers, 'none',
\* 'original' and a misspelt tier; the two groups and an unknown one
LookupQualities == {"ultra-low", "low", "medium", "high", "none", "original", "hihg"}
LookupTypes == {"ynz", "phoenix", "dragon"}

\* One lookup of the asset path and of the profile of a tier. The four
\* functions return a value for every argument; none of them throws.
ProfileLookup(quality, type, isMobile) ==
  /\ lookup' = [quality |-> quality, type |-> type, isMobile |-> isMobile,
                failed |-> FALSE,
                path |-> getModelPath(quality, type),
                devicePath |-> deviceGetModelPath(quality),
                phoenixPath |-> getPhoenixModelPath(quality, quality),
                maxFPS |-> getPerformanceSettings(quality, isMobile).maxFPS,
                frameSkip |-> animationSettings(quality).frameSkip,
                maxRenderTime |-> calculateThresholds(quality).maxRenderTime]
  /\ UNCHANGED deviceCapabilities
  /\ UNCHANGED assessUnused

\* one call of assessDeviceCapabilities(): the probe finds d, the call returns
\* deviceInfo and the assessment made from it
AssessDevice(d) ==
  /\ d.supported = webglSupported
  /\ deviceCapabilities' = [deviceInfo |-> d, assessment |-> assessDeviceCapabilities(d)]
  /\ UNCHANGED lookup
  /\ UNCHANGED assessUnused

AssessInit ==
  /\ NoCleanupYet
  /\ lookup = NoLookup
  /\ NoDeadline
  /\ construction = NotConstructing
  /\ NoOptimizer
  /\ NoHistory
  /\ NoTimers
  /\ statsRead = NoStatsRead
  /\ deviceCapabilities = NotAssessed
  /\ webglSupported \in BOOLEAN
  /\ LoaderUnmounted
  /\ PhoenixConstructed(DesktopDevice)
  /\ loadedModels = <<>>
  /\ inflight = <<>>
  /\ nLoads = 0
  /\ memoryUsage = 0
  /\ maxCacheSize = getMaxCacheSize(FALSE, 2048)
  /\ now = 0

AssessNext ==
  \/ \E d \in Devices : AssessDevice(d)
  \/ \E quality \in LookupQualities, type \in LookupTypes, isMobile \in BOOLEAN :
        ProfileLookup(quality, type, isMobile)

SpecAssess == AssessInit /\ [][AssessNext]_vars

(***************************************************************************)
(* Properties of the assessment                                            *)
(***************************************************************************)
HasAssessed == deviceCapabilities.assessment.recommendedQuality # "null"

\* C15: every assessment of a mobile device with GPU tier HIGH, an estimated
\* memory of at least 3000 MB and network class FAST recommends 'medium'.
C15_MobileCap ==
  (/\ HasAssessed
   /\ deviceCapabilities.deviceInfo.isMobile
   /\ deviceCapabilities.deviceInfo.tier = "HIGH"
   /\ deviceCapabilities.deviceInfo.memoryEstimate >= 3000
   /\ deviceCapabilities.deviceInfo.network = "FAST")
  => deviceCapabilities.assessment.recommendedQuality = "medium"

\* C15 (case reached): a tablet (3072 MB assumed) with a HIGH GPU on a FAST
\* network has been assessed.
C15_StrongTabletAssessed ==
  /\ HasAssessed
  /\ deviceCapabilities.deviceInfo.isMobile
  /\ deviceCapabilities.deviceInfo.tier = "HIGH"
  /\ deviceCapabilities.deviceInfo.memoryEstimate = 3072
  /\ deviceCapabilities.deviceInfo.network = "FAST"

\* C16 (as stated): every assessment of a desktop device with GPU tier LOW
\* recommends 'low', whatever the memory estimate and the network class.
C16_DesktopLowAlwaysLow ==
  (/\ HasAssessed
   /\ ~deviceCapabilities.deviceInfo.isMobile
   /\ deviceCapabilities.deviceInfo.tier = "LOW")
  => deviceCapabilities.assessment.recommendedQuality = "low"

\* C16 (amended): every assessment of a desktop device with GPU tier LOW
\* recommends 'low' for every memory estimate when the network class is not
\* SLOW, and 'ultra-low' when it is SLOW.
C16_DesktopLowUnlessSlow ==
  (/\ HasAssessed
   /\ ~deviceCapabilities.deviceInfo.isMobile
   /\ deviceCapabilities.deviceInfo.tier = "LOW")
  => deviceCapabilities.assessment.recommendedQuality =
       (IF deviceCapabilities.deviceInfo.network = "SLOW" THEN "ultra-low" ELSE "low")

\* C16 (case reached): a desktop device with a LOW GPU on a SLOW network has
\* been assessed.
C16_DesktopLowOnSlowNetwork ==
  /\ HasAssessed
  /\ ~deviceCapabilities.deviceInfo.isMobile
  /\ deviceCapabilities.deviceInfo.tier = "LOW"
  /\ deviceCapabilities.deviceInfo.network = "SLOW"

\* C17: an assessment made on a SLOW network recommends the tier one below the
\* one the same device gets on any other network class; 'ultra-low' stays
\* 'ultra-low' (and a device without WebGL stays at 'none').
C17_SlowNetworkStepsDown ==
  (HasAssessed /\ deviceCapabilities.deviceInfo.network = "SLOW")
  => \A n \in NetworkQualities \ {"SLOW"} :
        LET other == assessDeviceCapabilities(
                       [deviceCapabilities.deviceInfo EXCEPT !.network = n]).recommendedQuality
            slow == deviceCapabilities.assessment.recommendedQuality
        IN IF Rank(other) > 1 THEN Rank(slow) = Rank(other) - 1 ELSE slow = other

\* C17 (case reached): a phone that gets 'ultra-low' on a fast network has been
\* assessed on a SLOW network.
C17_UltraLowOnSlowNetwork ==
  /\ HasAssessed
  /\ deviceCapabilities.deviceInfo.network = "SLOW"
  /\ deviceCapabilities.deviceInfo.supported
  /\ deviceCapabilities.deviceInfo.isMobile
  /\ deviceCapabilities.deviceInfo.tier = "LOW"
  /\ deviceCapabilities.deviceInfo.memoryEstimate = 1024

\* the four tiers, lowest first
Tiers == <<"ultra-low", "low", "medium", "high">>
TierSet == {Tiers[i] : i \in 1..Len(Tiers)}

\* C23: a lookup for a tier outside the four or for an unknown asset group
\* fails instead of returning a path or a profile.
C23_UnknownTierFails ==
  (/\ lookup # NoLookup
   /\ \/ lookup.quality \notin TierSet
      \/ lookup.type \notin {"ynz", "phoenix"})
  => lookup.failed

\* C23 (case reached): a lookup for a misspelt tier and an unknown asset group
\* has returned the low asset of the default group and the low profile.
C23_FallbackReturned ==
  /\ lookup.quality = "hihg"
  /\ lookup.type = "dragon"
  /\ lookup.path = AssetPath("ynz", "low")
  /\ lookup.maxFPS = getPerformanceSettings("low", lookup.isMobile).maxFPS

\* C27: every tier has its own profile, and against every higher tier the
\* profile of a tier has a frame budget (maxRenderTime, 1000 / maxFPS) and a
\* frame skip that are not smaller.
C27_ProfilesOrdered ==
  (lookup.quality \in TierSet /\ lookup.type \in {"ynz", "phoenix"}) =>
     /\ lookup.path = AssetPath(lookup.type, lookup.quality)
     /\ lookup.phoenixPath = AssetPath("phoenix", lookup.quality)
     /\ lookup.maxFPS > 0
     /\ \A higher \in TierSet :
          Rank(lookup.quality) < Rank(higher) =>
             /\ lookup.maxRenderTime >= calculateThresholds(higher).maxRenderTime
             /\ lookup.maxFPS <= getPerformanceSettings(higher, lookup.isMobile).maxFPS
             /\ lookup.frameSkip >= animationSettings(higher).frameSkip

\* C27 (case reached): the profile of 'low' has been looked up on a mobile
\* device, where 'medium' has the same frame rate.
C27_LowProfileOnMobile ==
  /\ lookup.quality = "low"
  /\ lookup.isMobile
  /\ lookup.maxFPS = getPerformanceSettings("medium", TRUE).maxFPS
  /\ lookup.frameSkip = 2

\* the order of the GPU tiers
GpuRank(tier) ==
  CASE tier = "HIGH" -> 3 [] tier = "MEDIUM" -> 2 [] tier = "LOW" -> 1 [] OTHER -> 0

\* C37: no device with the same mobile flag, memory estimate and network
\* class but a higher GPU tier than the assessed one gets a lower
\* recommendedQuality.
C37_MonotoneInGpuTier ==
  (HasAssessed /\ deviceCapabilities.deviceInfo.supported) =>
     \A tier \in GpuTiers :
        GpuRank(tier) > GpuRank(deviceCapabilities.deviceInfo.tier) =>
           Rank(recommendedQualityOf([deviceCapabilities.deviceInfo EXCEPT !.tier = tier]))
             >= Rank(deviceCapabilities.assessment.recommendedQuality)

\* C37 (case reached): a mobile device with a MEDIUM GPU and 1024 MB has been
\* assessed as 'low' on a fast network.
C37_WeakMemoryMediumGpu ==
  /\ HasAssessed
  /\ deviceCapabilities.deviceInfo.isMobile
  /\ deviceCapabilities.deviceInfo.tier = "MEDIUM"
  /\ deviceCapabilities.deviceInfo.memoryEstimate = 1024
  /\ deviceCapabilities.deviceInfo.network = "FAST"
  /\ deviceCapabilities.assessment.recommendedQuality = "low"

====
